---- MODULE Spec2Model ----
(***************************************************************************)
(* FileMemory, the in-process / on-disk DataSafe of PollGo                 *)
(* (src/datasafe/mysql.go, lines 386-1162).                                *)
(*                                                                         *)
(* Strings that the code takes apart (poll identifiers) are sequences of   *)
(* characters; an answer ID "%d-%s" is the pair <<counter, suffix>>; a     *)
(* []byte is a record that keeps apart nil and empty; time.Time values are *)
(* naturals that keep the order of the readings of time.Now().             *)
(***************************************************************************)
EXTENDS Integers, Sequences, FiniteSets, TLC

VARIABLES
    active,               \* fm.active
    settings,             \* ClearInterval, ClearAfterRatio, MaximumMemory, DiscSyncInterval
    memory,               \* fm.memory: internal ID -> FileMemoryPollResult
    disk,                 \* the files under fm.Path: internal ID -> file
    now,                  \* the last reading of time.Now()
    flushandclose,        \* number of values buffered in fm.flushandclose (capacity 1)
    flushandclosereturn,  \* "open" or "closed"
    workers,              \* the worker goroutines started so far, in order
    flushers,             \* the FlushAndClose calls in progress
    panicked,             \* the process died of a runtime panic
    l,                    \* fm.l: the callers holding the mutex (SpecConc)
    calls,                \* the SavePollResult calls in progress (SpecConc)
    held,                 \* the slices a caller got from GetPollResult (SpecAlias)
    last,                 \* the step that completed last, with what it returned
    hist                  \* history of the calls, for stating the properties

vars == <<active, settings, memory, disk, now, flushandclose, flushandclosereturn,
          workers, flushers, panicked, l, calls, held, last, hist>>

---------------------------------------------------------------------------
(* Bounds of the model                                                     *)

MaxSaves == 2
MaxLoads == 2
MaxFlushers == 2
MaxCallers == 2

---------------------------------------------------------------------------
(* Errors and characters                                                   *)

NoError == "nil"
ErrFileMemoryNotActive == "filememory was not activated"
ErrFileMemoryInvalidID == "filememory got invalid ID"
ErrSettings == "filememory: invalid settings"
ErrJSON == "json: syntax error"
ErrDecode == "gob: decode error"
ErrIO == "os: file error"

PathSeparator == "/"
Sentinel == "U+FDD0"

\* ClearAfterRatio is held in units of 1/RatioDen (0.0 .. 1.0 is 0 .. RatioDen)
RatioDen == 4

\* number of values save() encodes into a file, one after the other
NumFields == 9

---------------------------------------------------------------------------
(* []byte: nil and empty are both of length 0, and differ in  == nil       *)

NilBytes == [nil |-> TRUE, b |-> <<>>]
Bytes(s) == [nil |-> FALSE, b |-> s]

\* gob sends a []byte as length and content; a length of 0 leaves the nil
\* target of Decode untouched
GobEncodeBytes(c) == c.b
GobDecodeBytes(s) == IF s = <<>> THEN NilBytes ELSE Bytes(s)

---------------------------------------------------------------------------
(* getInternalID                                                           *)

Contains(ID, ch) == \E i \in DOMAIN ID : ID[i] = ch

\* a replacement that replaces nothing (a faulty variant, to show what depends
\* on the replacement)
ReplaceNone(ID, old, new) == ID

ReplaceAll(ID, old, new) == [i \in DOMAIN ID |-> IF ID[i] = old THEN new ELSE ID[i]]

\* getInternalID without its test for the sentinel (a faulty variant, to show
\* what depends on the test)
getInternalIDUnchecked(ID) ==
    [id |-> ReplaceAll(ID, PathSeparator, Sentinel), err |-> NoError]

\* getInternalID dropping the path separators (a faulty variant, to show
\* what depends on the character put in their place)
getInternalIDDropping(ID) ==
    IF Contains(ID, Sentinel)
    THEN [id |-> <<>>, err |-> ErrFileMemoryInvalidID]
    ELSE [id |-> SelectSeq(ID, LAMBDA x : x # PathSeparator), err |-> NoError]

getInternalID(ID) ==
    IF Contains(ID, Sentinel)
    THEN [id |-> <<>>, err |-> ErrFileMemoryInvalidID]
    ELSE [id |-> ReplaceAll(ID, PathSeparator, Sentinel), err |-> NoError]

\* the internal ID of an identifier that has one
InternalID(pollID) == getInternalID(pollID).id

---------------------------------------------------------------------------
(* FileMemoryPollResult and the codec                                      *)

EmptyResult(t) ==
    [Data |-> <<>>, Names |-> <<>>, Comments |-> <<>>, Config |-> NilBytes,
     LastAccess |-> t, Deleted |-> FALSE, Creator |-> "", Change |-> <<>>,
     IDs |-> <<>>, AnswerCounter |-> 0]

\* the values in the order save() encodes them, with the names written in the
\* place of the comments as well (a faulty variant, to show what depends on
\* the values written)
EncodedNamesTwice(p) ==
    <<p.Data, p.Names, p.Names, GobEncodeBytes(p.Config), p.Deleted, p.Creator,
      p.Change, p.IDs, p.AnswerCounter>>

\* the values save() encodes, in the order it encodes them
Encoded(p) ==
    <<p.Data, p.Names, p.Comments, GobEncodeBytes(p.Config), p.Deleted, p.Creator,
      p.Change, p.IDs, p.AnswerCounter>>

\* a file: the values written to it; bad marks content gob cannot decode
File(values) == [bad |-> FALSE, values |-> values]
CorruptFile == [bad |-> TRUE, values |-> <<>>]

\* Decode of the k-th value: at the end of the data the target keeps its zero value
Field(f, k, zero) == IF k <= Len(f.values) THEN f.values[k] ELSE zero

\* the empty string as an answer ID
EmptyID == <<0, "">>

\* load() without the two loops (a faulty variant, to show what depends on
\* them)
PadNone(s, n, empty) == s

\* for len(s) < n { s = append(s, "") }
RECURSIVE Pad(_, _, _)
Pad(s, n, empty) == IF Len(s) < n THEN Pad(Append(s, empty), n, empty) ELSE s

load(dsk, ID, t) ==
    IF ID \notin DOMAIN dsk THEN [r |-> EmptyResult(t), err |-> NoError]
    ELSE IF dsk[ID].bad THEN [r |-> EmptyResult(t), err |-> ErrDecode]
    ELSE LET f == dsk[ID]
             names == Field(f, 2, <<>>)
         IN [r |-> [Data |-> Field(f, 1, <<>>),
                    Names |-> names,
                    Comments |-> Field(f, 3, <<>>),
                    Config |-> GobDecodeBytes(Field(f, 4, <<>>)),
                    LastAccess |-> t,
                    Deleted |-> Field(f, 5, FALSE),
                    Creator |-> Field(f, 6, ""),
                    Change |-> Pad(Field(f, 7, <<>>), Len(names), ""),
                    IDs |-> Pad(Field(f, 8, <<>>), Len(names), EmptyID),
                    AnswerCounter |-> Field(f, 9, 0)],
             err |-> NoError]

\* save() with its test of p.Config turned around: only records without a
\* configuration are written (a faulty variant, to show what depends on save)
saveInverted(mem, dsk, ID, io) ==
    IF ID \notin DOMAIN mem THEN [disk |-> dsk, err |-> ErrIO]
    ELSE IF ~mem[ID].Config.nil THEN [disk |-> dsk, err |-> NoError]
    ELSE IF io < 0 THEN [disk |-> dsk, err |-> ErrIO]
    ELSE [disk |-> (ID :> File(SubSeq(Encoded(mem[ID]), 1, io))) @@ dsk,
          err |-> IF io < NumFields THEN ErrIO ELSE NoError]

\* save(ID): io is what the file system does with this write: NumFields values
\* written is a full write, fewer is a write that fails after that many values,
\* -1 is an os.Create that fails
\* save without its test of the config (a faulty variant, to show what
\* depends on the test)
saveAlways(mem, dsk, ID, io) ==
    IF ID \notin DOMAIN mem THEN [disk |-> dsk, err |-> ErrIO]
    ELSE IF io < 0 THEN [disk |-> dsk, err |-> ErrIO]
    ELSE [disk |-> (ID :> File(SubSeq(Encoded(mem[ID]), 1, io))) @@ dsk,
          err |-> IF io < NumFields THEN ErrIO ELSE NoError]

save(mem, dsk, ID, io) ==
    IF ID \notin DOMAIN mem THEN [disk |-> dsk, err |-> ErrIO]
    ELSE IF mem[ID].Config.nil THEN [disk |-> dsk, err |-> NoError]
    ELSE IF io < 0 THEN [disk |-> dsk, err |-> ErrIO]
    ELSE [disk |-> (ID :> File(SubSeq(Encoded(mem[ID]), 1, io))) @@ dsk,
          err |-> IF io < NumFields THEN ErrIO ELSE NoError]

\* testload putting nothing into the map when there is no file (a faulty
\* variant, to show what depends on the record of an unknown poll)
testloadKnown(mem, dsk, pollID, t) ==
    LET i == getInternalID(pollID) IN
    IF i.err # NoError THEN [memory |-> mem, err |-> i.err]
    ELSE IF i.id \in DOMAIN mem THEN [memory |-> mem, err |-> NoError]
    ELSE IF i.id \notin DOMAIN dsk THEN [memory |-> mem, err |-> ErrIO]
    ELSE LET ld == load(dsk, i.id, t) IN
         IF ld.err # NoError THEN [memory |-> mem, err |-> ld.err]
         ELSE [memory |-> (i.id :> ld.r) @@ mem, err |-> NoError]

\* testload: caller has to lock
testload(mem, dsk, pollID, t) ==
    LET i == getInternalID(pollID) IN
    IF i.err # NoError THEN [memory |-> mem, err |-> i.err]
    ELSE IF i.id \in DOMAIN mem THEN [memory |-> mem, err |-> NoError]
    ELSE LET ld == load(dsk, i.id, t) IN
         IF ld.err # NoError THEN [memory |-> mem, err |-> ld.err]
         ELSE [memory |-> (i.id :> ld.r) @@ mem, err |-> NoError]

---------------------------------------------------------------------------
(* time.Now(): only the order of the readings is ever used (Less), so the  *)
(* readings kept in the state are renumbered 0, 1, 2, ... in their order   *)

Times(mem, t) == {mem[id].LastAccess : id \in DOMAIN mem} \cup {t}

Rank(x, S) == Cardinality({y \in S : y < x})

Renumber(mem, t) ==
    [memory |-> [id \in DOMAIN mem |->
                    [mem[id] EXCEPT !.LastAccess = Rank(@, Times(mem, t))]],
     now |-> Rank(t, Times(mem, t))]

\* the store's memory and clock after a step
Store(mem) ==
    /\ memory' = Renumber(mem, now).memory
    /\ now' = Renumber(mem, now).now

Remove(f, x) == [y \in DOMAIN f \ {x} |-> f[y]]

EmptyMap == [x \in {} |-> x]

\* what a record holds, apart from the time of its last access
Content(p) ==
    [Data |-> p.Data, Names |-> p.Names, Comments |-> p.Comments, Config |-> p.Config,
     Deleted |-> p.Deleted, Creator |-> p.Creator, Change |-> p.Change,
     IDs |-> p.IDs, AnswerCounter |-> p.AnswerCounter]

\* a search that takes the last row when no row carries answerID (a faulty
\* variant, to show what depends on the search)
IndexOfOrLast(p, answerID) ==
    IF \E i \in DOMAIN p.IDs : p.IDs[i] = answerID
    THEN CHOOSE i \in DOMAIN p.IDs :
            /\ p.IDs[i] = answerID
            /\ \A j \in DOMAIN p.IDs : p.IDs[j] = answerID => i <= j
    ELSE Len(p.IDs)

\* position of answerID in p.IDs (the first one, as the loops return there), 0 if none
IndexOf(p, answerID) ==
    IF \E i \in DOMAIN p.IDs : p.IDs[i] = answerID
    THEN CHOOSE i \in DOMAIN p.IDs :
            /\ p.IDs[i] = answerID
            /\ \A j \in DOMAIN p.IDs : p.IDs[j] = answerID => i <= j
    ELSE 0

\* append(s[:i], s[i+1:]...), as a value
DeleteAt(s, i) == SubSeq(s, 1, i - 1) \o SubSeq(s, i + 1, Len(s))

NoConfig(c) == c.nil \/ c.b = <<>>

Alive == ~panicked

\* fm.l.Lock() .. testload .. getInternalID of every operation on a poll
Enter(pollID) ==
    IF ~active THEN [err |-> ErrFileMemoryNotActive, id |-> <<>>, memory |-> memory,
                     reload |-> <<>>]
    ELSE LET tl == testload(memory, disk, pollID, now)
             i == getInternalID(pollID)
         IN IF tl.err # NoError
            THEN [err |-> tl.err, id |-> <<>>, memory |-> memory, reload |-> <<>>]
            ELSE [err |-> NoError, id |-> i.id, memory |-> tl.memory,
                  reload |-> IF i.id \in DOMAIN memory \/ i.id \notin DOMAIN hist.evicted
                             THEN <<>>
                             ELSE <<hist.evicted[i.id], Content(tl.memory[i.id])>>]

Returned(op, pollID, err, val, e) ==
    last' = [op |-> op, key |-> pollID, err |-> err, val |-> val, reload |-> e.reload]

\* the history forgets the eviction of a record that is loaded again
Loaded(h, e) == [h EXCEPT !.evicted = IF e.err = NoError THEN Remove(@, e.id) ELSE @]

UnchangedWorker == UNCHANGED <<flushandclose, flushandclosereturn, workers, flushers, panicked>>
UnchangedConc == UNCHANGED <<l, calls, held>>

Log(h, id) == IF id \in DOMAIN h.log THEN h.log[id] ELSE <<>>

\* an answer ID numbered by the rows present instead of the counter (a faulty
\* variant, to show what depends on the counter)
NewAnswerIDByLength(p, rnd) == <<Len(p.IDs) + 1, rnd>>

\* p.AnswerCounter++; id := fmt.Sprintf("%d-%s", p.AnswerCounter, fm.getRandomID())
NewAnswerID(p, rnd) == <<p.AnswerCounter + 1, rnd>>

---------------------------------------------------------------------------
(* The slices a caller holds. GetPollResult returns p.Data, p.Names,       *)
(* p.Comments and p.IDs themselves: slices on the arrays of the record in  *)
(* fm.memory. held is what the caller of KeepPollResult got and what it    *)
(* sees in these slices now; shared tells whether the record in fm.memory  *)
(* still uses the same arrays.                                             *)

NoHold == [on |-> FALSE]

Columns(p) == [Data |-> p.Data, Names |-> p.Names, Comments |-> p.Comments, IDs |-> p.IDs]

Hold(id, p) == [on |-> TRUE, id |-> id, shared |-> TRUE, got |-> Columns(p), view |-> Columns(p)]

\* whether the held slices are on the arrays of the hot record of pollID
SharedWith(h, pollID) ==
    /\ h.on
    /\ h.shared
    /\ active
    /\ getInternalID(pollID).err = NoError
    /\ h.id = InternalID(pollID)
    /\ h.id \in DOMAIN memory

\* p.Data[i] = results, p.Names[i] = name, p.Comments[i] = comment: written
\* into the arrays
AfterOverwrite(h, pollID, answerID, name, comment, results) ==
    IF ~SharedWith(h, pollID) THEN h
    ELSE LET i == IndexOf(memory[h.id], answerID) IN
         IF i = 0 \/ i > Len(h.view.Names) THEN h
         ELSE [h EXCEPT !.view.Data[i] = results,
                        !.view.Names[i] = name,
                        !.view.Comments[i] = comment]

\* append(s[:i], s[i+1:]...) on an array: the elements behind i move one place
\* to the front, the last place keeps its element
Shifted(view, old, i) ==
    [j \in DOMAIN view |-> IF i <= j /\ j < Len(old) THEN old[j + 1] ELSE view[j]]

AfterDelete(h, pollID, answerID) ==
    IF ~SharedWith(h, pollID) THEN h
    ELSE LET p == memory[h.id]
             i == IndexOf(p, answerID)
         IN IF i = 0 THEN h
            ELSE [h EXCEPT !.view.Data = Shifted(@, p.Data, i),
                           !.view.Names = Shifted(@, p.Names, i),
                           !.view.Comments = Shifted(@, p.Comments, i),
                           !.view.IDs = Shifted(@, p.IDs, i)]

\* append(s, x): written behind the last element if the array has room (it has
\* if the held slice is longer), else into a new array; how much room an
\* array has is up to the implementation of append
Written1(view, n, x) == [j \in DOMAIN view |-> IF j = n + 1 THEN x ELSE view[j]]

AfterAppend(h, pollID, name, comment, results, rnd) ==
    IF ~SharedWith(h, pollID) THEN {h}
    ELSE LET p == memory[h.id]
             n == Len(p.Names)
         IN IF n < Len(h.view.Names)
            THEN {[h EXCEPT !.view.Data = Written1(@, n, results),
                            !.view.Names = Written1(@, n, name),
                            !.view.Comments = Written1(@, n, comment),
                            !.view.IDs = Written1(@, n, NewAnswerID(p, rnd))]}
            ELSE {h, [h EXCEPT !.shared = FALSE]}

\* delete(fm.memory, id), fm.memory = make(...): a record loaded later has new arrays
AfterDrop(h, ids) == IF h.on /\ h.id \in ids THEN [h EXCEPT !.shared = FALSE] ELSE h

---------------------------------------------------------------------------
(* The public operations on a poll. Each runs under fm.l from its first to *)
(* its last statement (Lock, defer Unlock), so each is one step.           *)

\* SavePollResult putting the new row in front of the others (a faulty
\* variant, to show what depends on the appends)
AppendedInFront(p, name, comment, results, change, rnd, t) ==
    [p EXCEPT !.Data = <<results>> \o @,
              !.Names = <<name>> \o @,
              !.Comments = <<comment>> \o @,
              !.Change = <<change>> \o @,
              !.AnswerCounter = @ + 1,
              !.IDs = <<NewAnswerID(p, rnd)>> \o @,
              !.LastAccess = t]

\* the record SavePollResult writes back
Appended(p, name, comment, results, change, rnd, t) ==
    [p EXCEPT !.Data = Append(@, results),
              !.Names = Append(@, name),
              !.Comments = Append(@, comment),
              !.Change = Append(@, change),
              !.AnswerCounter = @ + 1,
              !.IDs = Append(@, NewAnswerID(p, rnd)),
              !.LastAccess = t]

SavePollResult(pollID, name, comment, results, change, rnd) ==
    LET e == Enter(pollID) IN
    /\ Alive
    /\ IF e.err # NoError
       THEN /\ Returned("SavePollResult", pollID, e.err, <<>>, e)
            /\ UNCHANGED <<memory, now, hist>>
       ELSE LET p == e.memory[e.id]
                id == NewAnswerID(p, rnd)
                q == Appended(p, name, comment, results, change, rnd, now)
                row == [id |-> id, name |-> name, comment |-> comment, results |-> results]
            IN /\ Len(Log(hist, e.id)) < MaxSaves
               /\ Store([e.memory EXCEPT ![e.id] = q])
               /\ Returned("SavePollResult", pollID, NoError, id, e)
               /\ hist' = [Loaded(hist, e) EXCEPT
                               !.log = (e.id :> Append(Log(hist, e.id), row)) @@ @,
                               !.cfgBroken = IF NoConfig(p.Config) THEN @ \cup {e.id} ELSE @,
                               !.marked = Remove(@, e.id)]
    /\ UNCHANGED <<active, settings, disk>>
    /\ UnchangedWorker
    /\ UNCHANGED <<l, calls>>
    /\ held' \in AfterAppend(held, pollID, name, comment, results, rnd)

\* OverwritePollResult leaving the change secret of the row (a faulty
\* variant, to show what depends on the four assignments)
OverwrittenButChange(p, i, name, comment, results, change, t) ==
    [p EXCEPT !.Data[i] = results,
              !.Names[i] = name,
              !.Comments[i] = comment,
              !.LastAccess = t]

\* the record OverwritePollResult writes back when p.IDs[i] == answerID
Overwritten(p, i, name, comment, results, change, t) ==
    [p EXCEPT !.Data[i] = results,
              !.Names[i] = name,
              !.Comments[i] = comment,
              !.Change[i] = change,
              !.LastAccess = t]

OverwritePollResult(pollID, answerID, name, comment, results, change) ==
    LET e == Enter(pollID) IN
    /\ Alive
    /\ IF e.err # NoError
       THEN /\ Returned("OverwritePollResult", pollID, e.err, <<>>, e)
            /\ UNCHANGED <<memory, now, hist>>
       ELSE LET p == e.memory[e.id]
                i == IndexOf(p, answerID)
                q == Overwritten(p, i, name, comment, results, change, now)
            IN /\ Store(IF i = 0 THEN e.memory ELSE [e.memory EXCEPT ![e.id] = q])
               /\ Returned("OverwritePollResult", pollID,
                           IF i = 0 THEN ErrFileMemoryInvalidID ELSE NoError, answerID, e)
               /\ hist' = [Loaded(hist, e) EXCEPT
                               !.marked = IF i = 0 THEN @ ELSE Remove(@, e.id)]
    /\ UNCHANGED <<active, settings, disk>>
    /\ UnchangedWorker
    /\ UNCHANGED <<l, calls>>
    /\ held' = AfterOverwrite(held, pollID, answerID, name, comment, results)

GetPollResult(pollID) ==
    LET e == Enter(pollID) IN
    /\ Alive
    /\ IF e.err # NoError
       THEN /\ Returned("GetPollResult", pollID, e.err, <<>>, e)
            /\ UNCHANGED <<memory, now, hist>>
       ELSE LET p == e.memory[e.id]
                q == [p EXCEPT !.LastAccess = now]
            IN /\ Store([e.memory EXCEPT ![e.id] = q])
               /\ Returned("GetPollResult", pollID, NoError,
                           [Data |-> p.Data, Names |-> p.Names, Comments |-> p.Comments,
                            IDs |-> p.IDs], e)
               /\ hist' = Loaded(hist, e)
    /\ UNCHANGED <<active, settings, disk>>
    /\ UnchangedWorker /\ UnchangedConc

\* GetPollResult by a caller that keeps what it got
KeepPollResult(pollID) ==
    LET e == Enter(pollID) IN
    /\ Alive
    /\ IF e.err # NoError
       THEN /\ Returned("GetPollResult", pollID, e.err, <<>>, e)
            /\ UNCHANGED <<memory, now, hist>>
       ELSE LET p == e.memory[e.id]
                q == [p EXCEPT !.LastAccess = now]
            IN /\ Store([e.memory EXCEPT ![e.id] = q])
               /\ Returned("GetPollResult", pollID, NoError,
                           [Data |-> p.Data, Names |-> p.Names, Comments |-> p.Comments,
                            IDs |-> p.IDs], e)
               /\ hist' = Loaded(hist, e)
    /\ UNCHANGED <<active, settings, disk>>
    /\ UnchangedWorker /\ UNCHANGED <<l, calls>>
    /\ held' = IF e.err = NoError THEN Hold(e.id, e.memory[e.id]) ELSE held

GetSinglePollResult(pollID, answerID) ==
    LET e == Enter(pollID) IN
    /\ Alive
    /\ IF e.err # NoError
       THEN /\ Returned("GetSinglePollResult", pollID, e.err, <<>>, e)
            /\ UNCHANGED <<memory, now, hist>>
       ELSE LET p == e.memory[e.id]
                i == IndexOf(p, answerID)
                q == [p EXCEPT !.LastAccess = now]
            IN /\ Store(IF i = 0 THEN e.memory ELSE [e.memory EXCEPT ![e.id] = q])
               /\ IF i = 0
                  THEN Returned("GetSinglePollResult", pollID, ErrFileMemoryInvalidID, <<>>, e)
                  ELSE Returned("GetSinglePollResult", pollID, NoError,
                                [Data |-> p.Data[i], Name |-> p.Names[i],
                                 Comment |-> p.Comments[i]], e)
               /\ hist' = Loaded(hist, e)
    /\ UNCHANGED <<active, settings, disk>>
    /\ UnchangedWorker /\ UnchangedConc

\* DeleteAnswer leaving the change secrets as they are (a faulty variant, to
\* show what depends on the five appends)
DeletedButChange(p, i, t) ==
    [p EXCEPT !.LastAccess = t,
              !.Data = DeleteAt(@, i),
              !.Names = DeleteAt(@, i),
              !.Comments = DeleteAt(@, i),
              !.IDs = DeleteAt(@, i)]

\* a deletion that takes the answer back from the counter (a faulty variant,
\* to show what depends on the counter being left alone)
DeletedAndUncounted(p, i, t) ==
    [p EXCEPT !.LastAccess = t,
              !.Data = DeleteAt(@, i),
              !.Names = DeleteAt(@, i),
              !.Comments = DeleteAt(@, i),
              !.Change = DeleteAt(@, i),
              !.IDs = DeleteAt(@, i),
              !.AnswerCounter = @ - 1]

\* the record DeleteAnswer writes back when p.IDs[i] == answerID
Deleted(p, i, t) ==
    [p EXCEPT !.LastAccess = t,
              !.Data = DeleteAt(@, i),
              !.Names = DeleteAt(@, i),
              !.Comments = DeleteAt(@, i),
              !.Change = DeleteAt(@, i),
              !.IDs = DeleteAt(@, i)]

DeleteAnswer(pollID, answerID) ==
    LET e == Enter(pollID) IN
    /\ Alive
    /\ IF e.err # NoError
       THEN /\ Returned("DeleteAnswer", pollID, e.err, <<>>, e)
            /\ UNCHANGED <<memory, now, hist>>
       ELSE LET p == e.memory[e.id]
                i == IndexOf(p, answerID)
                q == Deleted(p, i, now)
            IN /\ Store(IF i = 0 THEN e.memory ELSE [e.memory EXCEPT ![e.id] = q])
               /\ Returned("DeleteAnswer", pollID,
                           IF i = 0 THEN ErrFileMemoryInvalidID ELSE NoError, answerID, e)
               /\ hist' = [Loaded(hist, e) EXCEPT
                               !.rowDeleted = IF i = 0 THEN @ ELSE @ \cup {e.id},
                               !.marked = IF i = 0 THEN @ ELSE Remove(@, e.id)]
    /\ UNCHANGED <<active, settings, disk>>
    /\ UnchangedWorker
    /\ UNCHANGED <<l, calls>>
    /\ held' = AfterDelete(held, pollID, answerID)

SavePollConfig(pollID, config) ==
    LET e == Enter(pollID) IN
    /\ Alive
    /\ IF e.err # NoError
       THEN /\ Returned("SavePollConfig", pollID, e.err, <<>>, e)
            /\ UNCHANGED <<memory, now, hist>>
       ELSE LET p == e.memory[e.id]
                q == [p EXCEPT !.Config = config, !.LastAccess = now]
            IN /\ Store([e.memory EXCEPT ![e.id] = q])
               /\ Returned("SavePollConfig", pollID, NoError, config, e)
               /\ hist' = [Loaded(hist, e) EXCEPT
                               !.cfgBroken = IF NoConfig(config)
                                                /\ (Log(hist, e.id) # <<>> \/ p.Creator # "")
                                             THEN @ \cup {e.id} ELSE @,
                               !.marked = Remove(@, e.id)]
    /\ UNCHANGED <<active, settings, disk>>
    /\ UnchangedWorker /\ UnchangedConc

GetPollConfig(pollID) ==
    LET e == Enter(pollID) IN
    /\ Alive
    /\ IF e.err # NoError
       THEN /\ Returned("GetPollConfig", pollID, e.err, <<>>, e)
            /\ UNCHANGED <<memory, now, hist>>
       ELSE LET p == e.memory[e.id]
                q == [p EXCEPT !.LastAccess = now]
            IN /\ Store([e.memory EXCEPT ![e.id] = q])
               /\ Returned("GetPollConfig", pollID, NoError, p.Config, e)
               /\ hist' = Loaded(hist, e)
    /\ UNCHANGED <<active, settings, disk>>
    /\ UnchangedWorker /\ UnchangedConc

SavePollCreator(pollID, name) ==
    LET e == Enter(pollID) IN
    /\ Alive
    /\ IF e.err # NoError
       THEN /\ Returned("SavePollCreator", pollID, e.err, <<>>, e)
            /\ UNCHANGED <<memory, now, hist>>
       ELSE LET p == e.memory[e.id]
                q == [p EXCEPT !.Creator = name, !.LastAccess = now]
            IN /\ Store([e.memory EXCEPT ![e.id] = q])
               /\ Returned("SavePollCreator", pollID, NoError, name, e)
               /\ hist' = [Loaded(hist, e) EXCEPT
                               !.cfgBroken = IF NoConfig(p.Config) /\ name # ""
                                             THEN @ \cup {e.id} ELSE @]
    /\ UNCHANGED <<active, settings, disk>>
    /\ UnchangedWorker /\ UnchangedConc

GetPollCreator(pollID) ==
    LET e == Enter(pollID) IN
    /\ Alive
    /\ IF e.err # NoError
       THEN /\ Returned("GetPollCreator", pollID, e.err, <<>>, e)
            /\ UNCHANGED <<memory, now, hist>>
       ELSE LET p == e.memory[e.id]
                q == [p EXCEPT !.LastAccess = now]
            IN /\ Store([e.memory EXCEPT ![e.id] = q])
               /\ Returned("GetPollCreator", pollID, NoError, p.Creator, e)
               /\ hist' = Loaded(hist, e)
    /\ UNCHANGED <<active, settings, disk>>
    /\ UnchangedWorker /\ UnchangedConc

\* MarkPollDeleted dropping the rows as well (a faulty variant, to show what
\* depends on the record written back)
MarkedAndEmptied(p, t) ==
    [p EXCEPT !.Deleted = TRUE, !.Creator = "", !.LastAccess = t,
              !.Data = <<>>, !.Names = <<>>, !.Comments = <<>>, !.Change = <<>>, !.IDs = <<>>]

\* the record MarkPollDeleted writes back
Marked(p, t) == [p EXCEPT !.Deleted = TRUE, !.Creator = "", !.LastAccess = t]

MarkPollDeleted(pollID) ==
    LET e == Enter(pollID) IN
    /\ Alive
    /\ IF e.err # NoError
       THEN /\ Returned("MarkPollDeleted", pollID, e.err, <<>>, e)
            /\ UNCHANGED <<memory, now, hist>>
       ELSE LET p == e.memory[e.id]
                q == Marked(p, now)
            IN /\ Store([e.memory EXCEPT ![e.id] = q])
               /\ Returned("MarkPollDeleted", pollID, NoError, e.id, e)
               /\ hist' = [Loaded(hist, e) EXCEPT
                               !.marked = (e.id :> [Config |-> p.Config, rows |-> Columns(p)])
                                             @@ @]
    /\ UNCHANGED <<active, settings, disk>>
    /\ UnchangedWorker /\ UnchangedConc

\* GetChange leaves LastAccess as it is
GetChange(pollID, answerID) ==
    LET e == Enter(pollID) IN
    /\ Alive
    /\ IF e.err # NoError
       THEN /\ Returned("GetChange", pollID, e.err, <<>>, e)
            /\ UNCHANGED <<memory, now, hist>>
       ELSE LET p == e.memory[e.id]
                i == IndexOf(p, answerID)
            IN /\ Store(e.memory)
               /\ IF i = 0
                  THEN Returned("GetChange", pollID, ErrFileMemoryInvalidID, <<>>, e)
                  ELSE Returned("GetChange", pollID, NoError, p.Change[i], e)
               /\ hist' = Loaded(hist, e)
    /\ UNCHANGED <<active, settings, disk>>
    /\ UnchangedWorker /\ UnchangedConc

---------------------------------------------------------------------------
(* RunGC, LoadConfig, FlushAndClose                                        *)

Perms(S) == {f \in [1..Cardinality(S) -> S] : \A i, j \in DOMAIN f : f[i] = f[j] => i = j}

WorkerStep(op, val) ==
    last' = [op |-> op, key |-> <<>>, err |-> NoError, val |-> val, reload |-> <<>>]

\* the first loop without its delete (a faulty variant, to show what depends
\* on the delete)
RECURSIVE GCMemoryKept(_, _, _, _, _)
GCMemoryKept(mem, dsk, order, i, io) ==
    IF i > Len(order) THEN [memory |-> mem, disk |-> dsk, err |-> NoError]
    ELSE LET s == save(mem, dsk, order[i], io[order[i]]) IN
         IF s.err # NoError THEN [memory |-> mem, disk |-> s.disk, err |-> s.err]
         ELSE GCMemoryKept(mem, s.disk, order, i + 1, io)

\* "First remove deleted entries from memory": range over the map, in any order
RECURSIVE GCMemory(_, _, _, _, _)
GCMemory(mem, dsk, order, i, io) ==
    IF i > Len(order) THEN [memory |-> mem, disk |-> dsk, err |-> NoError]
    ELSE LET s == save(mem, dsk, order[i], io[order[i]]) IN
         IF s.err # NoError THEN [memory |-> mem, disk |-> s.disk, err |-> s.err]
         ELSE GCMemory(Remove(mem, order[i]), s.disk, order, i + 1, io)

\* the second loop going on after a file that cannot be decoded (a faulty
\* variant, to show what depends on the return)
RECURSIVE GCFilesOn(_, _, _, _)
GCFilesOn(dsk, order, i, t) ==
    IF i > Len(order) THEN [disk |-> dsk, err |-> NoError, at |-> Len(order)]
    ELSE LET ld == load(dsk, order[i], t) IN
         IF ld.err # NoError
         THEN [GCFilesOn(dsk, order, i + 1, t) EXCEPT !.err = ld.err, !.at = i]
         ELSE IF ld.r.Deleted \/ ld.r.Config.nil
              THEN GCFilesOn(Remove(dsk, order[i]), order, i + 1, t)
              ELSE GCFilesOn(dsk, order, i + 1, t)

\* the second loop removing the files marked as deleted only (a faulty
\* variant, to show what depends on the test of the config)
RECURSIVE GCFilesDeletedOnly(_, _, _, _)
GCFilesDeletedOnly(dsk, order, i, t) ==
    IF i > Len(order) THEN [disk |-> dsk, err |-> NoError, at |-> Len(order)]
    ELSE LET ld == load(dsk, order[i], t) IN
         IF ld.err # NoError THEN [disk |-> dsk, err |-> ld.err, at |-> i]
         ELSE IF ld.r.Deleted
              THEN GCFilesDeletedOnly(Remove(dsk, order[i]), order, i + 1, t)
              ELSE GCFilesDeletedOnly(dsk, order, i + 1, t)

\* "Test all files": the files in the order Readdir gives them
RECURSIVE GCFiles(_, _, _, _)
GCFiles(dsk, order, i, t) ==
    IF i > Len(order) THEN [disk |-> dsk, err |-> NoError, at |-> Len(order)]
    ELSE LET ld == load(dsk, order[i], t) IN
         IF ld.err # NoError THEN [disk |-> dsk, err |-> ld.err, at |-> i]
         ELSE IF ld.r.Deleted \/ ld.r.Config.nil
              THEN GCFiles(Remove(dsk, order[i]), order, i + 1, t)
              ELSE GCFiles(dsk, order, i + 1, t)

RunGC(io) ==
    /\ Alive
    /\ IF ~active
       THEN /\ last' = [op |-> "RunGC", key |-> <<>>, err |-> ErrFileMemoryNotActive,
                        val |-> <<>>, reload |-> <<>>]
            /\ UNCHANGED <<memory, now, disk, hist>>
       ELSE \E korder \in Perms({k \in DOMAIN memory : memory[k].Deleted}) :
              LET g1 == GCMemory(memory, disk, korder, 1, io) IN
              IF g1.err # NoError
              THEN /\ Store(g1.memory)
                   /\ disk' = g1.disk
                   /\ last' = [op |-> "RunGC", key |-> <<>>, err |-> g1.err,
                               val |-> <<>>, reload |-> <<>>]
                   /\ hist' = [hist EXCEPT
                                 !.gcTouched = @ \cup (DOMAIN memory \ DOMAIN g1.memory),
                                 !.marked = EmptyMap]
              ELSE \E forder \in Perms(DOMAIN g1.disk) :
                     LET g2 == GCFiles(g1.disk, forder, 1, now)
                         gone == (DOMAIN memory \ DOMAIN g1.memory)
                                    \cup (DOMAIN disk \ DOMAIN g2.disk)
                     IN /\ Store(g1.memory)
                        /\ disk' = g2.disk
                        /\ last' = [op |-> "RunGC", key |-> <<>>, err |-> g2.err,
                                    val |-> [gone |-> gone,
                                             scanned |-> SubSeq(forder, 1, g2.at)],
                                    reload |-> <<>>]
                        /\ hist' = [hist EXCEPT
                                      !.gcTouched = @ \cup gone,
                                      !.evicted = [id \in DOMAIN hist.evicted \ gone |-> hist.evicted[id]],
                                      !.marked = EmptyMap]
    /\ UNCHANGED <<active, settings>>
    /\ UnchangedWorker
    /\ UNCHANGED <<l, calls>>
    /\ held' = AfterDrop(held, DOMAIN memory \ DOMAIN memory')

\* the tests of LoadConfig without the one of ClearAfterRatio (a faulty
\* variant, to show what depends on the tests)
ValidSettingsButRatio(d) ==
    /\ d.MaximumMemory > 0
    /\ d.ClearInterval > 0
    /\ d.DiscSyncInterval >= 0

\* the tests LoadConfig makes on the fields of fm after json.Unmarshal
ValidSettings(d) ==
    /\ d.MaximumMemory > 0
    /\ d.ClearInterval > 0
    /\ d.DiscSyncInterval >= 0
    /\ d.ClearAfterRatio >= 0
    /\ d.ClearAfterRatio <= RatioDen

SettingNames == {"ClearInterval", "ClearAfterRatio", "MaximumMemory", "DiscSyncInterval"}

\* json.Unmarshal(data, fm): a field that data names is set, a field that data
\* does not name keeps the value fm has (json: whether data parses)
Fields(d) == [n \in SettingNames |-> IF n \in DOMAIN d THEN d[n] ELSE settings[n]]

\* the worker reads DiscSyncInterval once, when it starts
\* a worker whose sync ticker always runs (a faulty variant, to show what
\* depends on the test of the interval)
NewWorkerAlwaysSync(d) == [pc |-> "run", sync |-> TRUE]

NewWorker(d) == [pc |-> "run", sync |-> d.DiscSyncInterval # 0]

LoadConfig(data) ==
    /\ Alive
    /\ IF active
       THEN /\ last' = [op |-> "LoadConfig", key |-> <<>>, err |-> ErrFileMemoryNotActive,
                        val |-> data, reload |-> <<>>]
            /\ UNCHANGED <<active, settings, workers, hist>>
       ELSE IF ~data.json
       THEN /\ last' = [op |-> "LoadConfig", key |-> <<>>, err |-> ErrJSON,
                        val |-> data, reload |-> <<>>]
            /\ UNCHANGED <<active, settings, workers, hist>>
       ELSE IF ~ValidSettings(Fields(data))
       THEN /\ settings' = Fields(data)
            /\ last' = [op |-> "LoadConfig", key |-> <<>>, err |-> ErrSettings,
                        val |-> data, reload |-> <<>>]
            /\ UNCHANGED <<active, workers, hist>>
       ELSE /\ Len(workers) < MaxLoads
            /\ settings' = Fields(data)
            /\ workers' = Append(workers, NewWorker(Fields(data)))
            /\ active' = TRUE
            /\ last' = [op |-> "LoadConfig", key |-> <<>>, err |-> NoError,
                        val |-> data, reload |-> <<>>]
            /\ hist' = [hist EXCEPT !.phase = "running"]
    /\ UNCHANGED <<memory, disk, now, flushandclose, flushandclosereturn, flushers, panicked>>
    /\ UnchangedConc

\* FlushAndClose, first part: Lock, look at fm.active, Unlock
FlushAndCloseCall(c) ==
    /\ Alive
    /\ flushers[c].pc = "idle"
    /\ IF ~active
       THEN /\ last' = [op |-> "FlushAndClose", key |-> <<>>, err |-> NoError,
                        val |-> [wasActive |-> FALSE, flushes |-> hist.flushes, caller |-> c],
                        reload |-> <<>>]
            /\ UNCHANGED flushers
       ELSE /\ flushers' = [flushers EXCEPT ![c] = [pc |-> "send", flushes |-> hist.flushes]]
            /\ last' = [op |-> "FlushAndClose.check", key |-> <<>>, err |-> NoError,
                        val |-> c, reload |-> <<>>]
    /\ UNCHANGED <<active, settings, memory, disk, now, flushandclose, flushandclosereturn,
                   workers, panicked, hist>>
    /\ UnchangedConc

\* select { case fm.flushandclose <- true: default: }
FlushAndCloseSend(c) ==
    /\ Alive
    /\ flushers[c].pc = "send"
    /\ flushandclose' = 1
    /\ flushers' = [flushers EXCEPT ![c].pc = "wait"]
    /\ last' = [op |-> "FlushAndClose.send", key |-> <<>>, err |-> NoError,
                val |-> flushandclose, reload |-> <<>>]
    /\ UNCHANGED <<active, settings, memory, disk, now, flushandclosereturn,
                   workers, panicked, hist>>
    /\ UnchangedConc

\* for range fm.flushandclosereturn {}: ends when the channel is closed
FlushAndCloseReturn(c) ==
    /\ Alive
    /\ flushers[c].pc = "wait"
    /\ flushandclosereturn = "closed"
    /\ flushers' = [flushers EXCEPT ![c] = [pc |-> "idle", flushes |-> 0]]
    /\ last' = [op |-> "FlushAndClose", key |-> <<>>, err |-> NoError,
                val |-> [wasActive |-> TRUE, flushes |-> flushers[c].flushes, caller |-> c],
                reload |-> <<>>]
    /\ UNCHANGED <<active, settings, memory, disk, now, flushandclose, flushandclosereturn,
                   workers, panicked, hist>>
    /\ UnchangedConc

---------------------------------------------------------------------------
(* The worker                                                              *)

\* the order turned round (a faulty variant, to show what depends on the order)
LessReversed(mem, a, b) == mem[a].LastAccess > mem[b].LastAccess

\* fileMemoryHelperArray.Less
Less(mem, a, b) == mem[a].LastAccess < mem[b].LastAccess

\* what sort.Sort may leave: no element before one that is Less than it
SortedHelpers(mem) ==
    {h \in Perms(DOMAIN mem) : \A i, j \in DOMAIN h : i < j => ~Less(mem, h[j], h[i])}

\* the target computed as the whole part of the product plus one (a faulty
\* variant, to show what depends on the target)
TargetFloorPlusOne(st) == (st.MaximumMemory * st.ClearAfterRatio) \div RatioDen + 1

\* int(math.Ceil(float64(fm.MaximumMemory) * fm.ClearAfterRatio))
Target(st) == (st.MaximumMemory * st.ClearAfterRatio + RatioDen - 1) \div RatioDen

\* a loop that leaves after its first round (a faulty variant, to show what
\* depends on the loop)
EvictOnce(mem, dsk, helper, i, target, io) ==
    [memory |-> Remove(mem, helper[i]),
     disk |-> save(mem, dsk, helper[i], io[helper[i]]).disk,
     freed |-> i,
     panic |-> FALSE]

\* for len(fm.memory) > target { save(helper[i].id); delete(fm.memory, helper[i].id); i++ }
RECURSIVE Evict(_, _, _, _, _, _)
Evict(mem, dsk, helper, i, target, io) ==
    IF Cardinality(DOMAIN mem) > target
    THEN IF i > Len(helper)
         THEN [memory |-> mem, disk |-> dsk, freed |-> i - 1, panic |-> TRUE]
         ELSE Evict(Remove(mem, helper[i]), save(mem, dsk, helper[i], io[helper[i]]).disk,
                    helper, i + 1, target, io)
    ELSE [memory |-> mem, disk |-> dsk, freed |-> i - 1, panic |-> FALSE]

\* for k := range fm.memory { fm.save(k) }
RECURSIVE SaveEach(_, _, _, _)
SaveEach(mem, dsk, ids, io) ==
    IF ids = {} THEN dsk
    ELSE LET k == CHOOSE x \in ids : TRUE
         IN SaveEach(mem, save(mem, dsk, k, io[k]).disk, ids \ {k}, io)

Snapshots(mem, ids) == [id \in ids |-> Content(mem[id])]

\* whether two records hold the same data (a nil and an empty config are both no bytes)
SameData(p, q) == [Content(p) EXCEPT !.Config = @.b] = [Content(q) EXCEPT !.Config = @.b]

\* the test with the full map counted as too full (a faulty variant, to show
\* what depends on the test)
FullEnough(mem, st) == Cardinality(DOMAIN mem) < st.MaximumMemory

\* if len(fm.memory) <= fm.MaximumMemory { return }
Enough(mem, st) == Cardinality(DOMAIN mem) <= st.MaximumMemory

\* case <-clear.C
ClearTick(w, io) ==
    /\ Alive
    /\ workers[w].pc = "run"
    /\ IF Enough(memory, settings)
       THEN /\ WorkerStep("clear", [before |-> Cardinality(DOMAIN memory), freed |-> {}])
            /\ UNCHANGED <<memory, now, disk, panicked, hist>>
       ELSE \E helper \in SortedHelpers(memory) :
              LET ev == Evict(memory, disk, helper, 1, Target(settings), io)
                  freed == DOMAIN memory \ DOMAIN ev.memory
              IN /\ Store(ev.memory)
                 /\ disk' = ev.disk
                 /\ panicked' = ev.panic
                 /\ WorkerStep("clear", [before |-> Cardinality(DOMAIN memory),
                                         freed |-> freed])
                 /\ hist' = [hist EXCEPT !.evicted = Snapshots(memory, freed) @@ @]
    /\ UNCHANGED <<active, settings, flushandclose, flushandclosereturn, workers, flushers>>
    /\ UNCHANGED <<l, calls>>
    /\ held' = AfterDrop(held, DOMAIN memory \ DOMAIN memory')

\* case <-sync.C
SyncTick(w, io) ==
    /\ Alive
    /\ workers[w].pc = "run"
    /\ workers[w].sync
    /\ disk' = SaveEach(memory, disk, DOMAIN memory, io)
    /\ WorkerStep("sync", Cardinality(DOMAIN memory))
    /\ UNCHANGED <<active, settings, memory, now, hist>>
    /\ UnchangedWorker /\ UnchangedConc

\* case <-fm.flushandclose: the value is taken from the channel
ShutdownRecv(w) ==
    /\ Alive
    /\ workers[w].pc = "run"
    /\ flushandclose = 1
    /\ flushandclose' = 0
    /\ workers' = [workers EXCEPT ![w].pc = "flush"]
    /\ WorkerStep("recv", w)
    /\ UNCHANGED <<active, settings, memory, disk, now, flushandclosereturn, flushers,
                   panicked, hist>>
    /\ UnchangedConc

\* ... and under the lock every record is saved, the map emptied, active reset
ShutdownFlush(w, io) ==
    /\ Alive
    /\ workers[w].pc = "flush"
    /\ disk' = SaveEach(memory, disk, DOMAIN memory, io)
    /\ Store(EmptyMap)
    /\ active' = FALSE
    /\ workers' = [workers EXCEPT ![w].pc = "close"]
    /\ WorkerStep("flush", DOMAIN memory)
    /\ hist' = [hist EXCEPT
                  !.flushes = @ + 1,
                  !.unsaved = {id \in DOMAIN memory : ~SameData(load(disk', id, 0).r, memory[id])},
                  !.phase = "closed",
                  !.evicted = Snapshots(memory, DOMAIN memory) @@ @]
    /\ UNCHANGED <<settings, flushandclose, flushandclosereturn, flushers, panicked>>
    /\ UNCHANGED <<l, calls>>
    /\ held' = AfterDrop(held, DOMAIN memory)

\* close(fm.flushandclosereturn); return
ShutdownClose(w) ==
    /\ Alive
    /\ workers[w].pc = "close"
    /\ IF flushandclosereturn = "closed"
       THEN /\ panicked' = TRUE
            /\ UNCHANGED <<flushandclosereturn, workers>>
       ELSE /\ flushandclosereturn' = "closed"
            /\ workers' = [workers EXCEPT ![w].pc = "done"]
            /\ UNCHANGED panicked
    /\ WorkerStep("close", w)
    /\ UNCHANGED <<active, settings, memory, disk, now, flushandclose, flushers, hist>>
    /\ UnchangedConc

\* time passes: the next reading of time.Now() is later than the last one
Tick ==
    /\ Alive
    /\ memory' = Renumber(memory, now + 1).memory
    /\ now' = Renumber(memory, now + 1).now
    /\ UNCHANGED <<active, settings, disk, last, hist>>
    /\ UnchangedWorker /\ UnchangedConc

---------------------------------------------------------------------------
(* Callers that run at the same time. An operation is fm.l.Lock(), the     *)
(* test of fm.active with testload and p := fm.memory[pollID], the change  *)
(* of p with fm.memory[pollID] = p, and the deferred fm.l.Unlock(); these  *)
(* are the steps of a caller here. The operations above are the same code  *)
(* run in one step, and can be taken whenever the mutex is free.           *)

\* a mutex that lets everybody in (a faulty variant, to show what depends on
\* the mutex)
CanLockAlways == TRUE

\* fm.l.Lock() returns only when nobody holds the mutex
CanLock == l = {}

IdleCall == [pc |-> "idle", op |-> <<>>, id |-> <<>>, p |-> <<>>, err |-> NoError,
             ret |-> <<>>, overlap |-> FALSE, reloaded |-> FALSE]

SaveResultOp(row, rnd) == [name |-> "SavePollResult", row |-> row, rnd |-> rnd]
SaveCreatorOp(creator) == [name |-> "SavePollCreator", creator |-> creator]

\* the record the operation writes back, given the copy p it took
Apply(p, op, t) ==
    IF op.name = "SavePollResult"
    THEN Appended(p, op.row.name, op.row.comment, op.row.results, op.row.change, op.rnd, t)
    ELSE [p EXCEPT !.Creator = op.creator, !.LastAccess = t]

\* what the operation returns
Result(p, op) == IF op.name = "SavePollResult" THEN NewAnswerID(p, op.rnd) ELSE <<>>

UnchangedStore ==
    UNCHANGED <<active, settings, disk, flushandclose, flushandclosereturn, workers,
                flushers, panicked, held>>

\* the caller calls the operation and gets to fm.l.Lock()
ConcCall(c, pollID, op) ==
    /\ Alive
    /\ calls[c].pc = "idle"
    /\ calls' = [calls EXCEPT ![c] =
                    [@ EXCEPT !.pc = "lock", !.op = op, !.id = pollID,
                              !.overlap = \E d \in DOMAIN calls :
                                             calls[d].pc \notin {"idle", "done"}]]
    /\ UNCHANGED <<memory, now, l, last, hist>>
    /\ UnchangedStore

\* fm.l.Lock()
ConcLock(c) ==
    /\ Alive
    /\ calls[c].pc = "lock"
    /\ CanLock
    /\ l' = l \cup {c}
    /\ calls' = [calls EXCEPT ![c].pc = "enter"]
    /\ UNCHANGED <<memory, now, last, hist>>
    /\ UnchangedStore

\* if !fm.active ..; fm.testload(pollID); fm.getInternalID(pollID); p := fm.memory[pollID]
ConcEnter(c) ==
    LET e == Enter(calls[c].id) IN
    /\ Alive
    /\ calls[c].pc = "enter"
    /\ IF e.err # NoError
       THEN /\ calls' = [calls EXCEPT ![c] = [@ EXCEPT !.pc = "unlock", !.err = e.err]]
            /\ UNCHANGED <<memory, now, hist>>
       ELSE /\ calls' = [calls EXCEPT ![c] =
                            [@ EXCEPT !.pc = "write",
                                      !.p = Renumber(e.memory, now).memory[e.id],
                                      !.reloaded = e.reload # <<>>]]
            /\ Store(e.memory)
            /\ hist' = Loaded(hist, e)
    /\ UNCHANGED <<l, last>>
    /\ UnchangedStore

\* the change of p .. fm.memory[pollID] = p
ConcWrite(c) ==
    LET id == InternalID(calls[c].id)
        p == calls[c].p
        op == calls[c].op
        row == [id |-> Result(p, op), name |-> op.row.name, comment |-> op.row.comment,
                results |-> op.row.results]
    IN /\ Alive
       /\ calls[c].pc = "write"
       /\ Store((id :> Apply(p, op, now)) @@ memory)
       /\ calls' = [calls EXCEPT ![c] = [@ EXCEPT !.pc = "unlock", !.ret = Result(p, op)]]
       /\ hist' = [hist EXCEPT
                     !.log = IF op.name = "SavePollResult"
                             THEN (id :> Append(Log(hist, id), row)) @@ @ ELSE @,
                     !.cfgBroken = IF NoConfig(p.Config) THEN @ \cup {id} ELSE @,
                     !.marked = Remove(@, id)]
       /\ UNCHANGED <<l, last>>
       /\ UnchangedStore

\* the deferred fm.l.Unlock(), and the return
ConcUnlock(c) ==
    /\ Alive
    /\ calls[c].pc = "unlock"
    /\ l' = l \ {c}
    /\ calls' = [calls EXCEPT ![c].pc = "done"]
    /\ last' = [op |-> calls[c].op.name, key |-> calls[c].id, err |-> calls[c].err,
                val |-> calls[c].ret, reload |-> <<>>]
    /\ UNCHANGED <<memory, now, hist>>
    /\ UnchangedStore

---------------------------------------------------------------------------
(* The store after init(): nothing configured, no worker, no file          *)

InitWith(dsk) ==
    /\ active = FALSE
    /\ settings = [ClearInterval |-> 0, ClearAfterRatio |-> 0, MaximumMemory |-> 0,
                   DiscSyncInterval |-> 0]
    /\ memory = EmptyMap
    /\ disk = dsk
    /\ now = 0
    /\ flushandclose = 0
    /\ flushandclosereturn = "open"
    /\ workers = <<>>
    /\ flushers = [c \in 1..MaxFlushers |-> [pc |-> "idle", flushes |-> 0]]
    /\ panicked = FALSE
    /\ l = {}
    /\ calls = [c \in 1..MaxCallers |-> IdleCall]
    /\ held = NoHold
    /\ last = [op |-> "init", key |-> <<>>, err |-> NoError, val |-> <<>>, reload |-> <<>>]
    /\ hist = [log |-> EmptyMap, rowDeleted |-> {}, gcTouched |-> {}, cfgBroken |-> {},
               evicted |-> EmptyMap, flushes |-> 0, unsaved |-> {}, phase |-> "new",
               marked |-> EmptyMap]

\* the store over an empty directory
Init == InitWith(EmptyMap)

---------------------------------------------------------------------------
(* The callers' inputs                                                     *)

PollKey == <<"a", "/", "b">>
OtherKey == <<"c">>
ThirdKey == <<"d">>
BadKey == <<"a", "U+FDD0">>

RowA == [name |-> "Alice", comment |-> "", results |-> <<0, 1>>, change |-> "secret1"]
RowB == [name |-> "Bob", comment |-> "maybe", results |-> <<1>>, change |-> "secret2"]
RowC == [name |-> "Carol", comment |-> "yes", results |-> <<2, 2>>, change |-> "secret3"]

RandomIDs == {"AAAAAAAA"}
IssuedIDs == {<<n, r>> : n \in 1..MaxSaves, r \in RandomIDs}
AnswerIDs == IssuedIDs \cup {EmptyID}

Configs == {NilBytes, Bytes(<<>>), Bytes(<<123, 125>>)}

Setting(m, r, s) ==
    [json |-> TRUE, ClearInterval |-> 1, ClearAfterRatio |-> r, MaximumMemory |-> m,
     DiscSyncInterval |-> s]

\* a file system on which every write succeeds
FullWrites == [id \in DOMAIN memory |-> NumFields]

\* a file system on which os.Create fails (-1) or the write of a file ends
\* after k of the values
Writes(k) == [id \in DOMAIN memory |-> k]

---------------------------------------------------------------------------
(* Rows: one poll that is configured, answered, read and has rows deleted, *)
(* while a second poll is touched so that the clear tick has something to  *)
(* evict. MaximumMemory is 1 and ClearAfterRatio 0: a clear tick that      *)
(* finds both polls hot writes both to their files and drops them. Every   *)
(* write to a file succeeds.                                               *)

RowsSettings == Setting(1, 0, 1)

NextRows ==
    \/ LoadConfig(RowsSettings)
    \/ \E c \in Configs : SavePollConfig(PollKey, c)
    \/ \E row \in {RowA, RowB}, rnd \in RandomIDs :
          SavePollResult(PollKey, row.name, row.comment, row.results, row.change, rnd)
    \/ \E a \in AnswerIDs : DeleteAnswer(PollKey, a)
    \/ GetPollResult(PollKey)
    \/ GetPollConfig(OtherKey)
    \/ \E w \in DOMAIN workers : ClearTick(w, FullWrites)
    \/ \E w \in DOMAIN workers : SyncTick(w, FullWrites)

SpecRows == Init /\ [][NextRows]_vars

Column(log, f) == [i \in DOMAIN log |-> log[i][f]]

\* GetPollResult has just returned the rows of a poll no row was deleted from
ReadUndeleted ==
    /\ last.op = "GetPollResult"
    /\ last.err = NoError
    /\ InternalID(last.key) \notin hist.rowDeleted

\* what was returned is what the SavePollResult calls appended, in their order
ReturnedIsLog ==
    LET log == Log(hist, InternalID(last.key)) IN
    /\ last.val.IDs = Column(log, "id")
    /\ last.val.Names = Column(log, "name")
    /\ last.val.Comments = Column(log, "comment")
    /\ last.val.Data = Column(log, "results")

Distinct(log) ==
    \A i, j \in DOMAIN log :
        i # j => log[i].id # log[j].id /\ log[i].id[1] # log[j].id[1]

---------------------------------------------------------------------------
(* Round trip: one poll is given a configuration, rows, a creator and the  *)
(* deleted mark; touching a second poll and a clear tick evict it, its     *)
(* next use loads it from its file. Every write to a file succeeds.        *)

NextRoundTrip ==
    \/ LoadConfig(RowsSettings)
    \/ \E c \in Configs : SavePollConfig(PollKey, c)
    \/ \E row \in {RowA, RowB}, rnd \in RandomIDs :
          SavePollResult(PollKey, row.name, row.comment, row.results, row.change, rnd)
    \/ SavePollCreator(PollKey, "carol")
    \/ MarkPollDeleted(PollKey)
    \/ GetPollCreator(PollKey)
    \/ GetPollConfig(OtherKey)
    \/ \E w \in DOMAIN workers : ClearTick(w, FullWrites)

SpecRoundTrip == Init /\ [][NextRoundTrip]_vars

\* the fields of a record that the round trip is stated for
Persistent(c) ==
    [Data |-> c.Data, Names |-> c.Names, Comments |-> c.Comments, Config |-> c.Config,
     Deleted |-> c.Deleted, Creator |-> c.Creator, Change |-> c.Change, IDs |-> c.IDs]

\* the operation that just returned loaded the record from the file written
\* when it was evicted with a non-empty configuration
ReloadedConfigured == last.reload # <<>> /\ ~NoConfig(last.reload[1].Config)

\* C2: a record with a non-empty configuration that is saved, evicted and
\* loaded again has the row data, names, comments, configuration, deleted
\* mark, creator, change secrets and answer IDs it had when it was evicted.
C2_RoundTrip == ReloadedConfigured => Persistent(last.reload[1]) = Persistent(last.reload[2])

\* a reloaded record with two different rows, the deleted mark and a creator
C2_Witness ==
    /\ ReloadedConfigured
    /\ Len(last.reload[2].Names) = 2
    /\ last.reload[2].Names[1] # last.reload[2].Names[2]
    /\ last.reload[2].Comments # last.reload[2].Names
    /\ last.reload[2].Creator # ""
    /\ last.reload[2].Deleted

---------------------------------------------------------------------------
(* Garbage collection: one poll is configured, given a creator, marked as  *)
(* deleted and collected, while sync and clear ticks write files. Every    *)
(* write to a file succeeds.                                               *)

NextGC ==
    \/ LoadConfig(RowsSettings)
    \/ \E c \in Configs : SavePollConfig(PollKey, c)
    \/ SavePollCreator(PollKey, "carol")
    \/ MarkPollDeleted(PollKey)
    \/ RunGC(FullWrites)
    \/ GetPollCreator(PollKey)
    \/ GetPollConfig(OtherKey)
    \/ \E w \in DOMAIN workers : ClearTick(w, FullWrites)
    \/ \E w \in DOMAIN workers : SyncTick(w, FullWrites)

SpecGC == Init /\ [][NextGC]_vars

\* the record the next operation on pollID would find, by testload
NextAccess(mem, dsk, pollID) == testload(mem, dsk, pollID, 0).memory[InternalID(pollID)]

\* C4: a successful RunGC that directly follows a successful MarkPollDeleted
\* of a poll leaves no file and no hot record of that poll, and the next
\* access to the poll finds an empty record that is not marked as deleted.
C4_DeletedIsCollected ==
    [][(/\ last.op = "MarkPollDeleted" /\ last.err = NoError
        /\ last'.op = "RunGC" /\ last'.err = NoError)
       => LET id == InternalID(last.key) IN
          /\ id \notin DOMAIN disk'
          /\ id \notin DOMAIN memory'
          /\ Content(NextAccess(memory', disk', last.key)) = Content(EmptyResult(0))]_vars

---------------------------------------------------------------------------
(* Clear ticks: three polls are touched at different or equal times under  *)
(* settings with MaximumMemory 1 or 2 and ratios 0, 1/4, 3/4 and 1, and    *)
(* the clear tick evicts. Every write to a file succeeds.                  *)

ClearSettings ==
    {Setting(1, 0, 0), Setting(1, 1, 0), Setting(2, 1, 0), Setting(2, 3, 0),
     Setting(2, RatioDen, 0)}

NextClear ==
    \/ \E d \in ClearSettings : LoadConfig(d)
    \/ SavePollConfig(PollKey, Bytes(<<123, 125>>))
    \/ \E k \in {PollKey, OtherKey, ThirdKey} : GetPollConfig(k)
    \/ \E w \in DOMAIN workers : ClearTick(w, FullWrites)
    \/ Tick

SpecClear == Init /\ [][NextClear]_vars

\* ceil(m * r / RatioDen): the least n with n >= m * r / RatioDen
CeilOfProduct(m, r) == CHOOSE n \in 0..m : n * RatioDen >= m * r /\ (n - 1) * RatioDen < m * r

\* the clear tick that just ran found more than MaximumMemory hot records
ClearedOverfull == last.op = "clear" /\ last.val.before > settings.MaximumMemory

\* C5: after a clear tick that starts with more than MaximumMemory hot
\* records, at most ceil(MaximumMemory * ClearAfterRatio) records are hot.
C5_ClearBound ==
    ClearedOverfull =>
        Cardinality(DOMAIN memory)
            <= CeilOfProduct(settings.MaximumMemory, settings.ClearAfterRatio)

\* three hot records, MaximumMemory 2 and ratio 1/4: one record stays hot
C5_Witness ==
    /\ ClearedOverfull
    /\ last.val.before = 3
    /\ settings.MaximumMemory = 2
    /\ settings.ClearAfterRatio = 1
    /\ Cardinality(DOMAIN memory) = 1

---------------------------------------------------------------------------
(* Shutdown: one poll is given a configuration and a creator, two callers  *)
(* call FlushAndClose, the worker runs its shutdown branch, and LoadConfig *)
(* is called again. Every write to a file succeeds.                        *)

NextShutdown ==
    \/ LoadConfig(RowsSettings)
    \/ SavePollConfig(PollKey, Bytes(<<123, 125>>))
    \/ SavePollCreator(PollKey, "carol")
    \/ GetPollCreator(PollKey)
    \/ \E c \in DOMAIN flushers : FlushAndCloseCall(c)
    \/ \E c \in DOMAIN flushers : FlushAndCloseSend(c)
    \/ \E c \in DOMAIN flushers : FlushAndCloseReturn(c)
    \/ \E w \in DOMAIN workers : ShutdownRecv(w)
    \/ \E w \in DOMAIN workers : ShutdownFlush(w, FullWrites)
    \/ \E w \in DOMAIN workers : ShutdownClose(w)

SpecShutdown == Init /\ [][NextShutdown]_vars

\* a FlushAndClose call that found the store active has just returned
FlushReturned == last.op = "FlushAndClose" /\ last.val.wasActive

\* C6: when two callers are inside FlushAndClose on an active store and one
\* of them returns, the worker has run its shutdown branch (written the hot
\* records) since that caller began.
C6_ReturnAfterFlush ==
    (/\ FlushReturned
     /\ \E d \in DOMAIN flushers \ {last.val.caller} : flushers[d].pc # "idle")
    => hist.flushes > last.val.flushes

\* the record of id in the file is the record in memory
OnDisk(id) == id \in DOMAIN disk /\ SameData(load(disk, id, 0).r, memory[id])

\* C7: when FlushAndClose returns after a call on an active store, no record
\* that has a configuration is hot without its file holding the same contents.
\* (Records without configuration are left out: save() does not write them.)
C7_NothingOnlyInMemory ==
    FlushReturned => \A id \in DOMAIN memory : ~memory[id].Config.nil => OnDisk(id)

---------------------------------------------------------------------------
(* Life of the store: the store is activated, shut down by a caller's      *)
(* FlushAndClose and activated again. While the store is active its poll   *)
(* is given a configuration and a creator; whenever it is not active       *)
(* (before the first LoadConfig, after each shutdown) each of the twelve   *)
(* storage operations is called. Every write to a file succeeds.           *)

FirstAnswer == <<1, "AAAAAAAA">>

\* a call of one of the twelve storage operations
StorageCall ==
    \/ SavePollResult(PollKey, RowA.name, RowA.comment, RowA.results, RowA.change, "AAAAAAAA")
    \/ OverwritePollResult(PollKey, FirstAnswer, RowB.name, RowB.comment, RowB.results,
                           RowB.change)
    \/ GetPollResult(PollKey)
    \/ GetSinglePollResult(PollKey, FirstAnswer)
    \/ DeleteAnswer(PollKey, FirstAnswer)
    \/ SavePollConfig(PollKey, Bytes(<<123, 125>>))
    \/ GetPollConfig(PollKey)
    \/ SavePollCreator(PollKey, "carol")
    \/ GetPollCreator(PollKey)
    \/ MarkPollDeleted(PollKey)
    \/ GetChange(PollKey, FirstAnswer)
    \/ RunGC(FullWrites)

NextLife ==
    \/ ~active /\ StorageCall
    \/ active /\ SavePollConfig(PollKey, Bytes(<<123, 125>>))
    \/ active /\ SavePollCreator(PollKey, "carol")
    \/ active /\ GetPollCreator(PollKey)
    \/ LoadConfig(RowsSettings)
    \/ FlushAndCloseCall(1)
    \/ FlushAndCloseSend(1)
    \/ FlushAndCloseReturn(1)
    \/ \E w \in DOMAIN workers : ShutdownRecv(w)
    \/ \E w \in DOMAIN workers : ShutdownFlush(w, FullWrites)
    \/ \E w \in DOMAIN workers : ShutdownClose(w)

SpecLife == Init /\ [][NextLife]_vars

\* C10: a storage operation called before any LoadConfig has succeeded, or
\* after the worker has completed a shutdown flush, fails with
\* ErrFileMemoryNotActive and changes neither the hot map nor any file.
C10_InactiveFails ==
    [][(/\ hist.phase = "new" \/ hist.flushes > 0
        /\ StorageCall)
       => /\ last'.err = ErrFileMemoryNotActive
          /\ memory' = memory
          /\ disk' = disk]_vars

\* C13: a LoadConfig call made after a LoadConfig call has succeeded fails,
\* starts no worker and leaves the settings and the hot map as they were.
C13_LoadConfigOnce ==
    [][(/\ hist.phase # "new"
        /\ LoadConfig(RowsSettings))
       => /\ last'.err # NoError
          /\ workers' = workers
          /\ settings' = settings
          /\ memory' = memory]_vars

---------------------------------------------------------------------------
(* Concurrency: two callers call SavePollResult or SavePollCreator on the  *)
(* same poll at the same time, while the poll is configured, a second poll *)
(* is touched and the clear and sync ticks run. Every write to a file      *)
(* succeeds.                                                               *)

CallerOps(c) ==
    IF c = 1 THEN {SaveResultOp(RowA, "AAAAAAAA"), SaveCreatorOp("carol")}
    ELSE {SaveResultOp(RowB, "AAAAAAAA"), SaveCreatorOp("dave")}

NextConc ==
    \/ CanLock /\ LoadConfig(RowsSettings)
    \/ CanLock /\ SavePollConfig(PollKey, Bytes(<<123, 125>>))
    \/ CanLock /\ GetPollConfig(OtherKey)
    \/ \E w \in DOMAIN workers : CanLock /\ ClearTick(w, FullWrites)
    \/ \E w \in DOMAIN workers : CanLock /\ SyncTick(w, FullWrites)
    \/ \E c \in DOMAIN calls : \E op \in CallerOps(c) : ConcCall(c, PollKey, op)
    \/ \E c \in DOMAIN calls : ConcLock(c)
    \/ \E c \in DOMAIN calls : ConcEnter(c)
    \/ \E c \in DOMAIN calls : ConcWrite(c)
    \/ \E c \in DOMAIN calls : ConcUnlock(c)

SpecConc == Init /\ [][NextConc]_vars

\* the record after the calls of the callers in order, one after the other
RECURSIVE SerialOutcome(_, _, _)
SerialOutcome(p, order, i) ==
    IF i > Len(order) THEN p
    ELSE SerialOutcome(Apply(p, calls[order[i]].op, 0), order, i + 1)

\* what the callers wrote, of a record
Written(c) ==
    [Data |-> c.Data, Names |-> c.Names, Comments |-> c.Comments, Creator |-> c.Creator,
     Change |-> c.Change, IDs |-> c.IDs, AnswerCounter |-> c.AnswerCounter]

\* the record of the poll and the values returned are those of the calls run
\* one after the other in the given order
SerialOrder(order) ==
    /\ Written(NextAccess(memory, disk, PollKey))
          = Written(SerialOutcome(EmptyResult(0), order, 1))
    /\ \A i \in DOMAIN order :
          calls[order[i]].ret
             = Result(SerialOutcome(EmptyResult(0), SubSeq(order, 1, i - 1), 1),
                      calls[order[i]].op)

\* every caller has called its operation on an active store and has returned
AllReturned == \A c \in DOMAIN calls : calls[c].pc = "done" /\ calls[c].err = NoError

NoLostUpdate ==
    \A c \in DOMAIN calls :
        calls[c].pc = "write" =>
            /\ InternalID(calls[c].id) \in DOMAIN memory
            /\ memory[InternalID(calls[c].id)] = calls[c].p

---------------------------------------------------------------------------
(* Held results: a caller keeps the four slices GetPollResult returned     *)
(* while rows of the poll are appended, overwritten and deleted and the    *)
(* clear tick evicts the record. Every write to a file succeeds.           *)

NextAlias ==
    \/ LoadConfig(RowsSettings)
    \/ SavePollConfig(PollKey, Bytes(<<123, 125>>))
    \/ SavePollResult(PollKey, RowA.name, RowA.comment, RowA.results, RowA.change, "AAAAAAAA")
    \/ \E a \in IssuedIDs :
          OverwritePollResult(PollKey, a, RowB.name, RowB.comment, RowB.results, RowB.change)
    \/ \E a \in IssuedIDs : DeleteAnswer(PollKey, a)
    \/ KeepPollResult(PollKey)
    \/ GetPollConfig(OtherKey)
    \/ \E w \in DOMAIN workers : ClearTick(w, FullWrites)

SpecAlias == Init /\ [][NextAlias]_vars

\* C9: the four sequences a caller got from GetPollResult keep their
\* contents, whatever OverwritePollResult, DeleteAnswer and SavePollResult
\* calls on the poll follow.
C9_HeldUnchanged == held.on => held.view = held.got

---------------------------------------------------------------------------
(* Invalid identifiers: on a store with a configured and answered poll,    *)
(* hot or in its file, each operation that takes a poll identifier is      *)
(* called with an identifier that holds the sentinel character. Every      *)
(* write to a file succeeds.                                               *)

\* a call of an operation on a poll with an identifier that holds the sentinel
BadCall ==
    \/ SavePollResult(BadKey, RowA.name, RowA.comment, RowA.results, RowA.change, "AAAAAAAA")
    \/ OverwritePollResult(BadKey, FirstAnswer, RowB.name, RowB.comment, RowB.results,
                           RowB.change)
    \/ GetPollResult(BadKey)
    \/ GetSinglePollResult(BadKey, FirstAnswer)
    \/ DeleteAnswer(BadKey, FirstAnswer)
    \/ SavePollConfig(BadKey, Bytes(<<123, 125>>))
    \/ GetPollConfig(BadKey)
    \/ SavePollCreator(BadKey, "carol")
    \/ GetPollCreator(BadKey)
    \/ MarkPollDeleted(BadKey)
    \/ GetChange(BadKey, FirstAnswer)

NextInvalid ==
    \/ LoadConfig(RowsSettings)
    \/ SavePollConfig(PollKey, Bytes(<<123, 125>>))
    \/ SavePollResult(PollKey, RowA.name, RowA.comment, RowA.results, RowA.change, "AAAAAAAA")
    \/ GetPollConfig(OtherKey)
    \/ \E w \in DOMAIN workers : ClearTick(w, FullWrites)
    \/ \E w \in DOMAIN workers : SyncTick(w, FullWrites)
    \/ BadCall

SpecInvalid == Init /\ [][NextInvalid]_vars

\* C11: on an active store, an operation called with a poll identifier that
\* holds the sentinel character fails with ErrFileMemoryInvalidID, adds no
\* record to the hot map, changes no hot record and touches no file.
C11_SentinelRefused ==
    [][(active /\ BadCall)
       => /\ last'.err = ErrFileMemoryInvalidID
          /\ memory' = memory
          /\ disk' = disk]_vars

\* SavePollResult refused for such an identifier while a poll with a row is
\* hot and a file exists
C11_Witness ==
    /\ active
    /\ last.op = "SavePollResult"
    /\ last.key = BadKey
    /\ last.err = ErrFileMemoryInvalidID
    /\ \E id \in DOMAIN memory : Len(memory[id].Names) = 1
    /\ DOMAIN disk # {}
    /\ InternalID(BadKey) \notin DOMAIN memory

---------------------------------------------------------------------------
(* Answers: the rows of one configured poll are appended, overwritten,     *)
(* looked up and deleted by answer IDs that were issued and by one that    *)
(* never was, while a creator is set, the poll is marked as deleted, and   *)
(* the clear tick evicts the record. Every write to a file succeeds.       *)

\* the answer IDs looked up: the first one issued, and one never issued
LookupIDs == {FirstAnswer, EmptyID}

NextAnswers ==
    \/ LoadConfig(RowsSettings)
    \/ SavePollConfig(PollKey, Bytes(<<123, 125>>))
    \/ \E row \in {RowA, RowB}, rnd \in RandomIDs :
          SavePollResult(PollKey, row.name, row.comment, row.results, row.change, rnd)
    \/ \E a \in AnswerIDs :
          OverwritePollResult(PollKey, a, RowC.name, RowC.comment, RowC.results, RowC.change)
    \/ \E a \in LookupIDs : GetSinglePollResult(PollKey, a)
    \/ \E a \in AnswerIDs : DeleteAnswer(PollKey, a)
    \/ \E a \in LookupIDs : GetChange(PollKey, a)
    \/ GetPollResult(PollKey)
    \/ GetPollConfig(OtherKey)
    \/ \E w \in DOMAIN workers : ClearTick(w, FullWrites)

SpecAnswers == Init /\ [][NextAnswers]_vars

\* the record of PollKey an operation starts from, and the one it leaves
Before == NextAccess(memory, disk, PollKey)
After == NextAccess(memory', disk', PollKey)

\* the five row sequences and the answer counter of a record
RowsOf(p) ==
    [Data |-> p.Data, Names |-> p.Names, Comments |-> p.Comments, Change |-> p.Change,
     IDs |-> p.IDs, AnswerCounter |-> p.AnswerCounter]

Carries(p, a) == \E i \in DOMAIN p.IDs : p.IDs[i] = a

\* a call of one of the four operations that look for a row by its answer ID
ByAnswerID(a) ==
    \/ OverwritePollResult(PollKey, a, RowC.name, RowC.comment, RowC.results, RowC.change)
    \/ GetSinglePollResult(PollKey, a)
    \/ DeleteAnswer(PollKey, a)
    \/ GetChange(PollKey, a)

\* the step is a call on PollKey, on an active store, of an operation named in ops
Called(ops) == active /\ last'.key = PollKey /\ last'.op \in ops

ByAnswerIDOps == {"OverwritePollResult", "GetSinglePollResult", "DeleteAnswer", "GetChange"}

\* the error an operation returns for an identifier that holds the sentinel
InvalidIdentifier == getInternalID(BadKey).err

\* C12 as stated: OverwritePollResult, GetSinglePollResult, DeleteAnswer and
\* GetChange with an answer ID that no row of the poll carries fail with an
\* error that is neither the one for an invalid identifier nor
\* ErrFileMemoryNotActive, and leave the rows and the answer counter alone.
C12_UnknownAnswerOwnError ==
    [][\A a \in AnswerIDs :
          (Called(ByAnswerIDOps) /\ ~Carries(Before, a) /\ ByAnswerID(a))
          => /\ last'.err \notin {NoError, ErrFileMemoryNotActive, InvalidIdentifier}
             /\ RowsOf(After) = RowsOf(Before)]_vars

\* C12, amended: the four operations fail for such an answer ID with
\* ErrFileMemoryInvalidID, the error that an invalid poll identifier gets as
\* well and that differs from ErrFileMemoryNotActive, and leave the rows and
\* the answer counter alone.
C12_UnknownAnswerInvalidID ==
    [][\A a \in AnswerIDs :
          (Called(ByAnswerIDOps) /\ ~Carries(Before, a) /\ ByAnswerID(a))
          => /\ last'.err = ErrFileMemoryInvalidID
             /\ last'.err = InvalidIdentifier
             /\ last'.err # ErrFileMemoryNotActive
             /\ RowsOf(After) = RowsOf(Before)]_vars

\* OverwritePollResult refused for an answer ID that was issued and whose row
\* has been deleted, on a poll that still has a row
C12_Witness ==
    /\ last.op = "OverwritePollResult"
    /\ last.key = PollKey
    /\ last.err = ErrFileMemoryInvalidID
    /\ last.val \in IssuedIDs
    /\ InternalID(PollKey) \in hist.rowDeleted
    /\ InternalID(PollKey) \in DOMAIN memory
    /\ Len(memory[InternalID(PollKey)].IDs) = 1

---------------------------------------------------------------------------
(* Settings: LoadConfig is called with settings that are in range, out of  *)
(* range in one field, not JSON, or that leave MaximumMemory out, and the  *)
(* storage operations are called before and after.                         *)

\* settings with one field out of range
OutOfRangeSettings ==
    {Setting(0, 0, 1), Setting(-1, 0, 1), Setting(1, -1, 1), Setting(1, RatioDen + 1, 1),
     Setting(1, 0, -1), [Setting(1, 0, 1) EXCEPT !.ClearInterval = 0],
     [Setting(2, 0, 1) EXCEPT !.ClearInterval = -1]}

\* settings that do not name MaximumMemory
NoMaximumMemory == [json |-> TRUE, ClearInterval |-> 1, ClearAfterRatio |-> 0,
                    DiscSyncInterval |-> 1]

SettingsInputs == OutOfRangeSettings \cup {RowsSettings, NoMaximumMemory, [json |-> FALSE]}

NextSettings ==
    \/ \E d \in SettingsInputs : LoadConfig(d)
    \/ ~active /\ StorageCall
    \/ active /\ SavePollConfig(PollKey, Bytes(<<123, 125>>))
    \/ active /\ GetPollConfig(PollKey)

SpecSettings == Init /\ [][NextSettings]_vars

\* C14: LoadConfig with MaximumMemory <= 0, ClearInterval <= 0,
\* DiscSyncInterval < 0 or ClearAfterRatio outside 0.0 .. 1.0 returns an
\* error, starts no worker and does not activate the store; and as long as no
\* LoadConfig has succeeded, every storage operation fails with
\* ErrFileMemoryNotActive.
C14_BadSettingsRefused ==
    [][/\ \A d \in OutOfRangeSettings :
             LoadConfig(d) => /\ last'.err # NoError
                              /\ workers' = workers
                              /\ active' = active
       /\ (hist.phase = "new" /\ StorageCall)
             => last'.err = ErrFileMemoryNotActive]_vars

\* a storage operation refused after a LoadConfig that failed on one field
\* and had set MaximumMemory before
C14_Witness ==
    /\ hist.phase = "new"
    /\ ~active
    /\ workers = <<>>
    /\ settings.MaximumMemory > 0
    /\ last.op = "SavePollResult"
    /\ last.err = ErrFileMemoryNotActive

---------------------------------------------------------------------------
(* Frames: the rows of one poll, which is given a configuration and a      *)
(* creator and is marked as deleted, are appended, overwritten and         *)
(* deleted by answer IDs that were issued and by one that never was. The   *)
(* record stays hot.                                                       *)

NextFrames ==
    \/ LoadConfig(RowsSettings)
    \/ SavePollConfig(PollKey, Bytes(<<123, 125>>))
    \/ SavePollCreator(PollKey, "carol")
    \/ MarkPollDeleted(PollKey)
    \/ \E row \in {RowA, RowB}, rnd \in RandomIDs :
          SavePollResult(PollKey, row.name, row.comment, row.results, row.change, rnd)
    \/ \E a \in AnswerIDs :
          OverwritePollResult(PollKey, a, RowC.name, RowC.comment, RowC.results, RowC.change)
    \/ \E a \in AnswerIDs : DeleteAnswer(PollKey, a)
    \/ GetPollResult(PollKey)

SpecFrames == Init /\ [][NextFrames]_vars

\* the names of the five row sequences
RowFields == {"Data", "Names", "Comments", "Change", "IDs"}

\* the fields of a record that are not rows
Rest(p) ==
    [Config |-> p.Config, Creator |-> p.Creator, Deleted |-> p.Deleted,
     AnswerCounter |-> p.AnswerCounter]

\* C15: a successful OverwritePollResult replaces the results, name, comment
\* and change secret of the row that carries answerID; the answer IDs, the
\* number and the order of the rows and the answer counter stay, and every
\* other row stays as it was.
C15_OverwriteFrame ==
    [][\A a \in AnswerIDs :
          (/\ Called({"OverwritePollResult"})
           /\ OverwritePollResult(PollKey, a, RowC.name, RowC.comment, RowC.results,
                                  RowC.change)
           /\ last'.err = NoError)
          => /\ After.IDs = Before.IDs
             /\ After.AnswerCounter = Before.AnswerCounter
             /\ \A f \in RowFields : Len(After[f]) = Len(Before[f])
             /\ \E i \in DOMAIN Before.IDs :
                   /\ Before.IDs[i] = a
                   /\ After.Data[i] = RowC.results
                   /\ After.Names[i] = RowC.name
                   /\ After.Comments[i] = RowC.comment
                   /\ After.Change[i] = RowC.change
                   /\ \A j \in DOMAIN Before.IDs \ {i}, f \in RowFields :
                         After[f][j] = Before[f][j]]_vars

\* the second of two rows overwritten, the first one as it was appended
C15_Witness ==
    /\ last.op = "OverwritePollResult"
    /\ last.err = NoError
    /\ last.val = <<2, "AAAAAAAA">>
    /\ InternalID(PollKey) \in DOMAIN memory
    /\ memory[InternalID(PollKey)].Names = <<RowA.name, RowC.name>>
    /\ memory[InternalID(PollKey)].Change = <<RowA.change, RowC.change>>

\* C16: a successful DeleteAnswer takes the row that carries answerID out of
\* the five row sequences and keeps the other rows, with their contents, in
\* their order; answer counter, configuration, creator and deleted mark stay.
C16_DeleteFrame ==
    [][\A a \in AnswerIDs :
          (/\ Called({"DeleteAnswer"})
           /\ DeleteAnswer(PollKey, a)
           /\ last'.err = NoError)
          => /\ Rest(After) = Rest(Before)
             /\ \E i \in DOMAIN Before.IDs :
                   /\ Before.IDs[i] = a
                   /\ \A f \in RowFields :
                         /\ Len(After[f]) = Len(Before[f]) - 1
                         /\ \A j \in DOMAIN After[f] :
                               After[f][j] = IF j < i THEN Before[f][j]
                                                      ELSE Before[f][j + 1]]_vars

\* the first of two different rows deleted on a poll with configuration and
\* creator: the second row is now the first
C16_Witness ==
    /\ last.op = "DeleteAnswer"
    /\ last.err = NoError
    /\ last.val = <<1, "AAAAAAAA">>
    /\ InternalID(PollKey) \in DOMAIN memory
    /\ memory[InternalID(PollKey)].IDs = <<<<2, "AAAAAAAA">>>>
    /\ memory[InternalID(PollKey)].Names = <<RowB.name>>
    /\ memory[InternalID(PollKey)].Creator = "carol"
    /\ ~NoConfig(memory[InternalID(PollKey)].Config)

\* the row the last SavePollResult on PollKey appended
LastSaved == Log(hist, InternalID(PollKey))[Len(Log(hist, InternalID(PollKey)))]

\* C17: a successful SavePollResult appends one row (results, name, comment,
\* change secret) behind the rows of the poll and returns an answer ID whose
\* number is the answer counter plus one, 1 on a poll never written to; the
\* rows there were, configuration, creator and deleted mark stay. A
\* GetPollResult that follows returns that row last, with the returned ID.
C17_AppendFrame ==
    [][/\ \A row \in {RowA, RowB} :
             (/\ Called({"SavePollResult"})
              /\ SavePollResult(PollKey, row.name, row.comment, row.results, row.change,
                                "AAAAAAAA")
              /\ last'.err = NoError)
             => /\ After.Data = Append(Before.Data, row.results)
                /\ After.Names = Append(Before.Names, row.name)
                /\ After.Comments = Append(Before.Comments, row.comment)
                /\ After.Change = Append(Before.Change, row.change)
                /\ After.IDs = Append(Before.IDs, last'.val)
                /\ last'.val[1] = Before.AnswerCounter + 1
                /\ InternalID(PollKey) \notin DOMAIN memory \cup DOMAIN disk
                      => last'.val[1] = 1
                /\ After.Config = Before.Config
                /\ After.Creator = Before.Creator
                /\ After.Deleted = Before.Deleted
       /\ (/\ last.op = "SavePollResult" /\ last.err = NoError /\ last.key = PollKey
           /\ GetPollResult(PollKey))
             => LET got == last'.val
                    n == Len(got.IDs)
                IN /\ last'.err = NoError
                   /\ n = Len(Before.IDs)
                   /\ n > 0
                   /\ got.IDs[n] = last.val
                   /\ got.Names[n] = LastSaved.name
                   /\ got.Comments[n] = LastSaved.comment
                   /\ got.Data[n] = LastSaved.results]_vars

\* a row appended to a poll with a creator after its first row was deleted:
\* the ID has the number 2 and the poll has one row
C17_Witness ==
    /\ last.op = "SavePollResult"
    /\ last.err = NoError
    /\ last.val = <<2, "AAAAAAAA">>
    /\ InternalID(PollKey) \in DOMAIN memory
    /\ memory[InternalID(PollKey)].IDs = <<last.val>>
    /\ memory[InternalID(PollKey)].Names = <<RowB.name>>
    /\ memory[InternalID(PollKey)].Creator = "carol"

---------------------------------------------------------------------------
(* Failing writes: the rows of one configured poll are appended,           *)
(* overwritten, deleted and read while the clear tick evicts the record    *)
(* and the write of its file succeeds, fails in os.Create, or fails after  *)
(* some of the values (a disk that is full).                               *)

\* how the write of a file ends: os.Create fails, the disk is full after the
\* second value (the names), or all values are written
WriteEnds == {-1, 2, NumFields}

NextWrites ==
    \/ LoadConfig(RowsSettings)
    \/ SavePollConfig(PollKey, Bytes(<<123, 125>>))
    \/ SavePollResult(PollKey, RowA.name, RowA.comment, RowA.results, RowA.change, "AAAAAAAA")
    \/ OverwritePollResult(PollKey, FirstAnswer, RowC.name, RowC.comment, RowC.results,
                           RowC.change)
    \/ DeleteAnswer(PollKey, FirstAnswer)
    \/ GetPollResult(PollKey)
    \/ GetPollConfig(OtherKey)
    \/ \E w \in DOMAIN workers, k \in WriteEnds : ClearTick(w, Writes(k))

SpecWrites == Init /\ [][NextWrites]_vars

EqualLengths(p, fields) == \A f, g \in fields : Len(p[f]) = Len(p[g])

\* C18: in every state the five row sequences of every hot record have the
\* same length, and so have the four sequences GetPollResult returns, after
\* any SavePollResult, OverwritePollResult, DeleteAnswer, eviction and reload.
C18_EqualLengths ==
    /\ \A id \in DOMAIN memory : EqualLengths(memory[id], RowFields)
    /\ last.op = "GetPollResult" /\ last.err = NoError
          => EqualLengths(last.val, {"Data", "Names", "Comments", "IDs"})

---------------------------------------------------------------------------
(* Marked polls: one poll, with or without a configuration, is given rows  *)
(* and a creator and is marked as deleted; its rows and configuration are  *)
(* read, the clear tick evicts it, and RunGC collects. Every write to a    *)
(* file succeeds.                                                          *)

NextMarked ==
    \/ LoadConfig(RowsSettings)
    \/ SavePollConfig(PollKey, Bytes(<<123, 125>>))
    \/ \E row \in {RowA, RowB}, rnd \in RandomIDs :
          SavePollResult(PollKey, row.name, row.comment, row.results, row.change, rnd)
    \/ SavePollCreator(PollKey, "carol")
    \/ MarkPollDeleted(PollKey)
    \/ GetPollResult(PollKey)
    \/ GetPollConfig(PollKey)
    \/ GetPollConfig(OtherKey)
    \/ RunGC(FullWrites)
    \/ \E w \in DOMAIN workers : ClearTick(w, FullWrites)

SpecMarked == Init /\ [][NextMarked]_vars

\* op has just returned for PollKey, which was marked as deleted and neither
\* written to nor collected since
MarkedRead(op) ==
    /\ last.op = op
    /\ last.err = NoError
    /\ last.key = PollKey
    /\ InternalID(PollKey) \in DOMAIN hist.marked

\* MarkPollDeleted has set the deleted mark and emptied the creator
MarkSet ==
    (last.op = "MarkPollDeleted" /\ last.err = NoError)
    => /\ memory[InternalID(last.key)].Deleted
       /\ memory[InternalID(last.key)].Creator = ""

\* what is read is what the poll held when it was marked
MarkedDataKept ==
    /\ MarkedRead("GetPollResult") => last.val = hist.marked[InternalID(PollKey)].rows
    /\ MarkedRead("GetPollConfig") => last.val.b = hist.marked[InternalID(PollKey)].Config.b

---------------------------------------------------------------------------
(* Access times: time passes while the operations on a poll are called on  *)
(* one poll and a second poll is read.                                     *)

NextAccessTimes ==
    \/ LoadConfig(RowsSettings)
    \/ Tick
    \/ GetPollConfig(OtherKey)
    \/ SavePollResult(PollKey, RowA.name, RowA.comment, RowA.results, RowA.change, "AAAAAAAA")
    \/ OverwritePollResult(PollKey, FirstAnswer, RowB.name, RowB.comment, RowB.results,
                           RowB.change)
    \/ GetPollResult(PollKey)
    \/ GetSinglePollResult(PollKey, FirstAnswer)
    \/ DeleteAnswer(PollKey, FirstAnswer)
    \/ SavePollConfig(PollKey, Bytes(<<123, 125>>))
    \/ GetPollConfig(PollKey)
    \/ SavePollCreator(PollKey, "carol")
    \/ GetPollCreator(PollKey)
    \/ MarkPollDeleted(PollKey)
    \/ GetChange(PollKey, FirstAnswer)

SpecAccessTimes == Init /\ [][NextAccessTimes]_vars

\* the operations that read or write a poll
PollOps ==
    {"SavePollResult", "OverwritePollResult", "GetPollResult", "GetSinglePollResult",
     "DeleteAnswer", "SavePollConfig", "GetPollConfig", "SavePollCreator", "GetPollCreator",
     "MarkPollDeleted", "GetChange"}

\* C20: when an operation that reads or writes a poll has returned without
\* error, no hot record has a later LastAccess than the record of that poll.
C20_AccessRefreshes ==
    (last.op \in PollOps /\ last.err = NoError)
    => \A id \in DOMAIN memory :
          memory[id].LastAccess <= memory[InternalID(last.key)].LastAccess

---------------------------------------------------------------------------
(* Keys: polls are written under every identifier of one or two characters *)
(* out of a letter, the path separator and the sentinel, and the sync tick *)
(* writes their files. Every write to a file succeeds.                     *)

KeyChars == {"a", PathSeparator, Sentinel}

Keys == {<<x>> : x \in KeyChars} \cup {<<x, y>> : x \in KeyChars, y \in KeyChars}

NextKeys ==
    \/ LoadConfig(RowsSettings)
    \/ \E k \in Keys : SavePollConfig(k, Bytes(<<123, 125>>))
    \/ \E w \in DOMAIN workers : SyncTick(w, FullWrites)

SpecKeys == Init /\ [][NextKeys]_vars

\* the keys of the hot map and the names of the files
InternalIDs == DOMAIN memory \cup DOMAIN disk

\* C21 as stated: no key of the hot map and no file name contains the path
\* separator or the sentinel character.
C21_NoSeparatorNoSentinel ==
    \A id \in InternalIDs : ~Contains(id, PathSeparator) /\ ~Contains(id, Sentinel)

\* C21, amended: no key of the hot map and no file name contains the path
\* separator; each is the identifier of a caller, which has no sentinel
\* character, with the sentinel character in the place of every path
\* separator, and belongs to that identifier alone.
C21_NoSeparator ==
    \A id \in InternalIDs :
        /\ ~Contains(id, PathSeparator)
        /\ \E k \in Keys :
              /\ ~Contains(k, Sentinel)
              /\ Len(k) = Len(id)
              /\ \A i \in DOMAIN k :
                    id[i] = IF k[i] = PathSeparator THEN Sentinel ELSE k[i]
              /\ \A k2 \in Keys : ~Contains(k2, Sentinel) /\ InternalID(k2) = id => k2 = k

\* the polls "a/" and "/" are hot and have their files, after an identifier
\* with the sentinel was refused
C21_Witness ==
    /\ InternalID(<<"a", PathSeparator>>) \in DOMAIN memory \cap DOMAIN disk
    /\ InternalID(<<PathSeparator>>) \in DOMAIN memory \cap DOMAIN disk
    /\ last.op = "SavePollConfig"
    /\ last.err = ErrFileMemoryInvalidID

---------------------------------------------------------------------------
(* The clear tick under SpecClear                                          *)

\* the clear tick that just ran found two hot records under MaximumMemory 1
\* and ClearAfterRatio 0
ClearedTwoOfOne ==
    /\ ClearedOverfull
    /\ settings.MaximumMemory = 1
    /\ settings.ClearAfterRatio = 0
    /\ last.val.before = 2

\* C22 as stated: with MaximumMemory 1 and ClearAfterRatio 0, a clear tick
\* that finds two hot polls evicts exactly one of them and leaves no poll hot.
C22_OneEvicted ==
    ClearedTwoOfOne =>
        Cardinality(last.val.freed) = 1 /\ Cardinality(DOMAIN memory) = 0

\* C22, amended: with MaximumMemory 1 and ClearAfterRatio 0, a clear tick
\* that finds two hot polls evicts both of them and leaves no poll hot.
C22_BothEvicted ==
    ClearedTwoOfOne =>
        Cardinality(last.val.freed) = 2 /\ Cardinality(DOMAIN memory) = 0

\* the clear tick found the polls a/b and c hot under MaximumMemory 1 and
\* ClearAfterRatio 0
C22_Witness ==
    /\ ClearedTwoOfOne
    /\ last.val.freed = {InternalID(PollKey), InternalID(OtherKey)}

\* C26: every record a clear tick evicts has a LastAccess no later than the
\* LastAccess of every record the tick keeps in the hot map.
C26_EvictsOldest ==
    [][\A w \in DOMAIN workers :
          ClearTick(w, FullWrites) =>
              \A a \in DOMAIN memory \ DOMAIN memory' :
                  \A b \in DOMAIN memory' :
                      memory[a].LastAccess <= memory[b].LastAccess]_vars

\* a clear tick found three hot records, evicted one of them and kept two
\* that were last used at different times
C26_Witness ==
    /\ ClearedOverfull
    /\ last.val.before = 3
    /\ Cardinality(last.val.freed) = 1
    /\ \E a, b \in DOMAIN memory : memory[a].LastAccess < memory[b].LastAccess

\* C27: a clear tick that starts with at most MaximumMemory hot records
\* evicts nothing, writes no file and leaves the hot map as it is.
C27_ClearFrame ==
    [][\A w \in DOMAIN workers :
          (/\ Cardinality(DOMAIN memory) <= settings.MaximumMemory
           /\ ClearTick(w, FullWrites))
          => /\ memory' = memory
             /\ disk' = disk
             /\ last'.val.freed = {}]_vars

\* a clear tick found as many hot records as MaximumMemory allows, two, under
\* a ratio that would have let it evict one, with files of earlier evictions
\* on disk
C27_Witness ==
    /\ last.op = "clear"
    /\ last.val.before = 2
    /\ settings.MaximumMemory = 2
    /\ settings.ClearAfterRatio = 1
    /\ Cardinality(DOMAIN memory) = 2
    /\ DOMAIN disk # {}

---------------------------------------------------------------------------
(* The clear tick under SpecWrites                                         *)

\* the file of id holds the contents p
FileHolds(id, p) ==
    /\ id \in DOMAIN disk
    /\ load(disk, id, 0).err = NoError
    /\ SameData(load(disk, id, 0).r, p)

\* C25: after a clear tick the file of every record the tick evicted holds
\* the contents the record had when it was evicted, also when the write of
\* the record failed. (Records without configuration are left out: save()
\* does not write them.)
C25_PersistThenDrop ==
    last.op = "clear" =>
        \A id \in last.val.freed :
            ~hist.evicted[id].Config.nil => FileHolds(id, hist.evicted[id])

---------------------------------------------------------------------------
(* Disc sync: the store is activated with DiscSyncInterval 0 or 1, shut    *)
(* down and activated again; one poll is given a configuration (none, an   *)
(* empty one, "{}"), a second one only a creator, and the sync tick and   *)
(* the clear tick run. Every write to a file succeeds.                     *)

SyncSettings == {Setting(2, RatioDen, 0), Setting(2, RatioDen, 1)}

NextSync ==
    \/ \E d \in SyncSettings : LoadConfig(d)
    \/ \E c \in Configs : SavePollConfig(PollKey, c)
    \/ SavePollCreator(OtherKey, "carol")
    \/ \E w \in DOMAIN workers : SyncTick(w, FullWrites)
    \/ \E w \in DOMAIN workers : ClearTick(w, FullWrites)
    \/ FlushAndCloseCall(1)
    \/ FlushAndCloseSend(1)
    \/ FlushAndCloseReturn(1)
    \/ \E w \in DOMAIN workers : ShutdownRecv(w)
    \/ \E w \in DOMAIN workers : ShutdownFlush(w, FullWrites)
    \/ \E w \in DOMAIN workers : ShutdownClose(w)

SpecSync == Init /\ [][NextSync]_vars

\* C29: the shutdown branch runs before completion is signalled, writes the
\* file of every hot record, empties the hot map and resets active; the
\* worker that signals completion has returned after it; and once completion
\* is signalled no clear tick and no disc-sync tick is processed. (Records
\* without configuration are left out: save() does not write them.)
C29_ShutdownOrder ==
    [][\A w \in DOMAIN workers :
          /\ ShutdownFlush(w, FullWrites) =>
                /\ flushandclosereturn = "open"
                /\ \A id \in DOMAIN memory :
                      ~memory[id].Config.nil =>
                          /\ id \in DOMAIN disk'
                          /\ SameData(load(disk', id, 0).r, memory[id])
                /\ memory' = EmptyMap
                /\ ~active'
          /\ ShutdownClose(w) =>
                /\ ~active
                /\ flushandclosereturn' = "closed"
                /\ workers'[w].pc = "done"
          /\ ClearTick(w, FullWrites) \/ SyncTick(w, FullWrites) =>
                flushandclosereturn = "open"]_vars

\* C28: a disc-sync tick leaves the hot map as it is, and after it the file
\* of every hot record with a non-empty config holds the record's contents;
\* a disc-sync tick happens only under a DiscSyncInterval other than 0.
C28_SyncFrame ==
    [][\A w \in DOMAIN workers :
          SyncTick(w, FullWrites) =>
              /\ memory' = memory
              /\ \A id \in DOMAIN memory :
                    ~NoConfig(memory[id].Config) =>
                        /\ id \in DOMAIN disk'
                        /\ load(disk', id, 0).err = NoError
                        /\ SameData(load(disk', id, 0).r, memory[id])
              /\ settings.DiscSyncInterval # 0]_vars

\* a disc-sync tick found two hot records: the one with a configuration has
\* its file, the one without configuration has none
C28_Witness ==
    /\ last.op = "sync"
    /\ last.val = 2
    /\ DOMAIN memory = {InternalID(PollKey), InternalID(OtherKey)}
    /\ ~NoConfig(memory[InternalID(PollKey)].Config)
    /\ DOMAIN disk = {InternalID(PollKey)}

---------------------------------------------------------------------------
(* The worker under SpecShutdown                                           *)

\* the workers that have not returned
Running == {w \in DOMAIN workers : workers[w].pc # "done"}

\* C30: whatever LoadConfig and FlushAndClose calls are made, in any order
\* and interleaving, the store does not panic (the completion channel is not
\* closed a second time) and at most one worker is running.
C30_NoPanicOneWorker ==
    /\ ~panicked
    /\ Cardinality(Running) <= 1

---------------------------------------------------------------------------
(* Exclusion: the callers of SpecConc, with the clear branch of the worker *)
(* in steps of its own: fm.l.Lock() with the test of the size and the      *)
(* first round of the loop, the other rounds, and the deferred             *)
(* fm.l.Unlock(). A caller of FlushAndClose and the shutdown branch run    *)
(* beside them. Every write to a file succeeds.                            *)

\* the worker among the holders of the mutex
Holder(w) == 0 - w

\* case <-clear.C: fm.l.Lock(), the test of the size, the first round of the loop
ConcClearBegin(w) ==
    /\ Alive
    /\ workers[w].pc = "run"
    /\ CanLock
    /\ l' = l \cup {Holder(w)}
    /\ IF Enough(memory, settings)
       THEN /\ workers' = [workers EXCEPT ![w].pc = "unlock"]
            /\ UNCHANGED <<memory, now, disk, hist, held>>
       ELSE \E helper \in SortedHelpers(memory) :
              /\ Store(Remove(memory, helper[1]))
              /\ disk' = save(memory, disk, helper[1], FullWrites[helper[1]]).disk
              /\ workers' = [workers EXCEPT ![w].pc = "rest"]
              /\ hist' = [hist EXCEPT !.evicted = Snapshots(memory, {helper[1]}) @@ @]
              /\ held' = AfterDrop(held, {helper[1]})
    /\ WorkerStep("clear.lock", w)
    /\ UNCHANGED <<active, settings, flushandclose, flushandclosereturn, flushers, panicked,
                   calls>>

\* the other rounds of the loop
ConcClearRest(w) ==
    /\ Alive
    /\ workers[w].pc = "rest"
    /\ \E helper \in SortedHelpers(memory) :
          LET ev == Evict(memory, disk, helper, 1, Target(settings), FullWrites)
              freed == DOMAIN memory \ DOMAIN ev.memory
          IN /\ Store(ev.memory)
             /\ disk' = ev.disk
             /\ panicked' = ev.panic
             /\ hist' = [hist EXCEPT !.evicted = Snapshots(memory, freed) @@ @]
             /\ held' = AfterDrop(held, freed)
    /\ workers' = [workers EXCEPT ![w].pc = "unlock"]
    /\ WorkerStep("clear.rest", w)
    /\ UNCHANGED <<active, settings, flushandclose, flushandclosereturn, flushers, l, calls>>

\* the deferred fm.l.Unlock() of the clear branch
ConcClearUnlock(w) ==
    /\ Alive
    /\ workers[w].pc = "unlock"
    /\ l' = l \ {Holder(w)}
    /\ workers' = [workers EXCEPT ![w].pc = "run"]
    /\ WorkerStep("clear", w)
    /\ UNCHANGED <<active, settings, memory, now, disk, flushandclose, flushandclosereturn,
                   flushers, panicked, calls, held, hist>>

\* the first caller saves an answer, the second one a creator
ExclusionOps(c) == IF c = 1 THEN SaveResultOp(RowA, "AAAAAAAA") ELSE SaveCreatorOp("dave")

NextExclusion ==
    \/ CanLock /\ LoadConfig(RowsSettings)
    \/ CanLock /\ GetPollConfig(OtherKey)
    \/ \E w \in DOMAIN workers : ConcClearBegin(w)
    \/ \E w \in DOMAIN workers : ConcClearRest(w)
    \/ \E w \in DOMAIN workers : ConcClearUnlock(w)
    \/ \E w \in DOMAIN workers : CanLock /\ SyncTick(w, FullWrites)
    \/ CanLock /\ FlushAndCloseCall(1)
    \/ FlushAndCloseSend(1)
    \/ FlushAndCloseReturn(1)
    \/ \E w \in DOMAIN workers : ShutdownRecv(w)
    \/ \E w \in DOMAIN workers : CanLock /\ ShutdownFlush(w, FullWrites)
    \/ \E w \in DOMAIN workers : ShutdownClose(w)
    \/ \E c \in DOMAIN calls : ConcCall(c, PollKey, ExclusionOps(c))
    \/ \E c \in DOMAIN calls : ConcLock(c)
    \/ \E c \in DOMAIN calls : ConcEnter(c)
    \/ \E c \in DOMAIN calls : ConcWrite(c)
    \/ \E c \in DOMAIN calls : ConcUnlock(c)

SpecExclusion == Init /\ [][NextExclusion]_vars

\* the callers and the workers that are between Lock() and Unlock()
InCritical ==
    {c \in DOMAIN calls : calls[c].pc \in {"enter", "write", "unlock"}}
        \cup {Holder(w) : w \in {v \in DOMAIN workers : workers[v].pc \in {"rest", "unlock"}}}

\* C23: at no time are two of the callers and the worker's branches inside
\* their critical sections together: whoever is inside holds the mutex
\* alone, and the record a caller took from the hot map is still the record
\* in the hot map when the caller writes it back.
C23_MutualExclusion ==
    /\ Cardinality(InCritical) <= 1
    /\ InCritical = l
    /\ \A c \in DOMAIN calls :
          calls[c].pc = "write" =>
              /\ InternalID(calls[c].id) \in DOMAIN memory
              /\ memory[InternalID(calls[c].id)] = calls[c].p

\* the clear branch has evicted the first of two records and holds the mutex,
\* while one caller waits at Lock() and the caller of FlushAndClose has sent
\* the shutdown signal
C23_Witness ==
    /\ \E w \in DOMAIN workers : workers[w].pc = "rest" /\ l = {Holder(w)}
    /\ Cardinality(DOMAIN memory) = 1
    /\ \E c \in DOMAIN calls : calls[c].pc = "lock"
    /\ flushandclose = 1

---------------------------------------------------------------------------
(* Exclusion under fair scheduling. A goroutine that can take its next     *)
(* step takes it; sync.Mutex hands the lock to a goroutine that has waited *)
(* (starvation mode), and select picks among its ready cases at random, so *)
(* a step that is possible again and again (Lock(), the receive of the     *)
(* shutdown signal) is taken in the end.                                   *)

FairExclusion ==
    /\ Init /\ [][NextExclusion]_vars
    /\ \A c \in 1..MaxCallers :
          /\ SF_vars(ConcLock(c))
          /\ WF_vars(ConcEnter(c) \/ ConcWrite(c) \/ ConcUnlock(c))
    /\ WF_vars(FlushAndCloseSend(1) \/ FlushAndCloseReturn(1))
    /\ \A w \in 1..MaxLoads :
          /\ SF_vars(w \in DOMAIN workers /\ ShutdownRecv(w))
          /\ SF_vars(w \in DOMAIN workers /\ CanLock /\ ShutdownFlush(w, FullWrites))
          /\ WF_vars(w \in DOMAIN workers
                       /\ (ConcClearRest(w) \/ ConcClearUnlock(w) \/ ShutdownClose(w)))

\* C24: under fair scheduling every call returns: a caller that has called
\* an operation gets through Lock() and returns, and a FlushAndClose call
\* that found the store active returns.
C24_EveryCallReturns ==
    /\ \A c \in 1..MaxCallers : (calls[c].pc = "lock") ~> (calls[c].pc = "done")
    /\ (flushers[1].pc # "idle") ~> (flushers[1].pc = "idle")

---------------------------------------------------------------------------
(* The answer counter: one poll is given a configuration (none, an empty   *)
(* one, "{}"); answers are saved, overwritten and deleted; the clear tick  *)
(* evicts, the sync tick writes and the next call loads the record again.  *)
(* Every write to a file succeeds.                                         *)

NextCounter ==
    \/ LoadConfig(RowsSettings)
    \/ \E c \in Configs : SavePollConfig(PollKey, c)
    \/ SavePollResult(PollKey, RowA.name, RowA.comment, RowA.results, RowA.change, "AAAAAAAA")
    \/ OverwritePollResult(PollKey, FirstAnswer, RowC.name, RowC.comment, RowC.results,
                           RowC.change)
    \/ DeleteAnswer(PollKey, FirstAnswer)
    \/ GetPollConfig(OtherKey)
    \/ \E w \in DOMAIN workers : ClearTick(w, FullWrites)
    \/ \E w \in DOMAIN workers : SyncTick(w, FullWrites)

SpecCounter == Init /\ [][NextCounter]_vars

---------------------------------------------------------------------------
(* The deleted mark and the files under SpecGC                             *)

\* C32: once a poll whose file holds a non-empty configuration is marked as
\* deleted, the next access to it finds it marked as deleted after every step
\* other than RunGC: after SavePollConfig, SavePollCreator, eviction and
\* reload. (A poll that was never written with a configuration is left out:
\* an eviction ends it.)
C32_DeletedSticky ==
    [][(/\ last'.op # "RunGC"
        /\ InternalID(PollKey) \in DOMAIN disk
        /\ ~NoConfig(load(disk, InternalID(PollKey), 0).r.Config)
        /\ NextAccess(memory, disk, PollKey).Deleted)
       => NextAccess(memory', disk', PollKey).Deleted]_vars

---------------------------------------------------------------------------
(* Persisting: one poll is given a configuration (none, an empty one,      *)
(* "{}") and is marked as deleted, and its record is persisted in each of  *)
(* the four places: by the clear tick, by the sync tick, by the shutdown   *)
(* branch (after one call of FlushAndClose, followed up to the flush) and  *)
(* by RunGC, whose writes succeed or fail in os.Create.                    *)

NextPersist ==
    \/ LoadConfig(RowsSettings)
    \/ \E c \in Configs : SavePollConfig(PollKey, c)
    \/ MarkPollDeleted(PollKey)
    \/ GetPollConfig(OtherKey)
    \/ \E w \in DOMAIN workers : ClearTick(w, FullWrites)
    \/ \E w \in DOMAIN workers : SyncTick(w, FullWrites)
    \/ \E k \in {-1, NumFields} : RunGC(Writes(k))
    \/ FlushAndCloseCall(1)
    \/ FlushAndCloseSend(1)
    \/ \E w \in DOMAIN workers : ShutdownRecv(w)
    \/ \E w \in DOMAIN workers : ShutdownFlush(w, FullWrites)

SpecPersist == Init /\ [][NextPersist]_vars

\* a step that persists hot records
Persisting ==
    \/ \E w \in DOMAIN workers :
          ClearTick(w, FullWrites) \/ SyncTick(w, FullWrites) \/ ShutdownFlush(w, FullWrites)
    \/ \E k \in {-1, NumFields} : RunGC(Writes(k))

\* no file of id is made or changed
FileUntouched(id) == id \in DOMAIN disk' => id \in DOMAIN disk /\ disk'[id] = disk[id]

\* C33 as stated: a step that persists leaves alone the file of every hot
\* record whose config is empty or absent: it makes no file, changes no file
\* that is there, and reports no error for the record.
C33_NoConfigNoWrite ==
    [][Persisting =>
          /\ \A id \in DOMAIN memory : NoConfig(memory[id].Config) => FileUntouched(id)
          /\ (\A id \in DOMAIN memory : NoConfig(memory[id].Config))
                => last'.err \in {NoError, ErrFileMemoryNotActive}]_vars

\* C33, amended: the same for every hot record whose config is absent (nil).
\* A record whose config is empty but not nil is written like any other.
C33_NilConfigNoWrite ==
    [][Persisting =>
          /\ \A id \in DOMAIN memory : memory[id].Config.nil => FileUntouched(id)
          /\ (\A id \in DOMAIN memory : memory[id].Config.nil)
                => last'.err \in {NoError, ErrFileMemoryNotActive}]_vars

\* RunGC has dropped the marked record of a poll whose config was taken away
\* after its file was written: no error, and the file is as it was
C33_Witness ==
    /\ last.op = "RunGC"
    /\ last.err = NoError
    /\ InternalID(PollKey) \in last.val.gone
    /\ InternalID(PollKey) \in DOMAIN disk
    /\ ~load(disk, InternalID(PollKey), 0).r.Deleted

---------------------------------------------------------------------------
(* The directory scan: the storage directory is empty or holds one file    *)
(* that is no gob stream; two polls are given an empty configuration or    *)
(* "{}", one of them is marked as deleted, the ticks write and evict, and  *)
(* RunGC collects. Every write to a file succeeds.                         *)

ForeignID == InternalID(ThirdKey)

InitScan == \E dsk \in {EmptyMap, ForeignID :> CorruptFile} : InitWith(dsk)

NextScan ==
    \/ LoadConfig(RowsSettings)
    \/ \E k \in {PollKey, OtherKey}, c \in {Bytes(<<>>), Bytes(<<123, 125>>)} :
          SavePollConfig(k, c)
    \/ MarkPollDeleted(PollKey)
    \/ \E w \in DOMAIN workers : ClearTick(w, FullWrites)
    \/ \E w \in DOMAIN workers : SyncTick(w, FullWrites)
    \/ RunGC(FullWrites)

SpecScan == InitScan /\ [][NextScan]_vars

\* RunGC is called on the active store and returns err
GCReturns(err) == active /\ RunGC(FullWrites) /\ last'.err = err

\* the hot records marked as deleted
HotDeleted == {id \in DOMAIN memory : memory[id].Deleted}

\* the directory after the first loop of RunGC
AfterPhase1 == SaveEach(memory, disk, HotDeleted, FullWrites)

\* the file of id in directory dsk decodes to a record that RunGC removes
Removable(dsk, id) ==
    load(dsk, id, 0).err = NoError
        /\ (load(dsk, id, 0).r.Deleted \/ load(dsk, id, 0).r.Config.nil)

\* C34: after a RunGC that returns no error no hot record is marked as
\* deleted: the hot records that were marked are dropped, no record has come
\* into the hot map, and every other hot record is hot with the same contents.
C34_GCMemory ==
    [][GCReturns(NoError) =>
          /\ \A id \in DOMAIN memory' : ~memory'[id].Deleted
          /\ DOMAIN memory' = DOMAIN memory \ HotDeleted
          /\ \A id \in DOMAIN memory' : Content(memory'[id]) = Content(memory[id])]_vars

\* RunGC has dropped the marked record of a/b and left the record of c hot
C34_Witness ==
    /\ last.op = "RunGC"
    /\ last.err = NoError
    /\ InternalID(PollKey) \in last.val.gone
    /\ InternalID(PollKey) \notin DOMAIN memory
    /\ InternalID(OtherKey) \in DOMAIN memory
    /\ ~NoConfig(memory[InternalID(OtherKey)].Config)

\* a RunGC that returns no error removes a file if and only if the record
\* decoded from it, after the first loop, is marked as deleted or has no
\* config, and leaves the other files as they are
RemovedIffRemovable ==
    /\ DOMAIN disk' \subseteq DOMAIN AfterPhase1
    /\ \A id \in DOMAIN AfterPhase1 :
          /\ id \notin DOMAIN disk' <=> Removable(AfterPhase1, id)
          /\ id \in DOMAIN disk' => disk'[id] = AfterPhase1[id]

\* C35 as stated: a RunGC that returns no error removes a file if and only if
\* its record is marked as deleted or has no config, and every file that held
\* a record not marked as deleted with a config before RunGC is there after
\* it, unchanged, whether its poll is hot or not.
C35_KeptWhetherHot ==
    [][GCReturns(NoError) =>
          /\ RemovedIffRemovable
          /\ \A id \in DOMAIN disk :
                ~Removable(disk, id) => id \in DOMAIN disk' /\ disk'[id] = disk[id]]_vars

\* C35, amended: the same, for the files of polls whose hot record, if there
\* is one, is not marked as deleted. The file of a poll that is hot and marked
\* as deleted is written by the first loop and removed by the second.
C35_KeptUnlessHotDeleted ==
    [][GCReturns(NoError) =>
          /\ RemovedIffRemovable
          /\ \A id \in DOMAIN disk \ HotDeleted :
                ~Removable(disk, id) => id \in DOMAIN disk' /\ disk'[id] = disk[id]]_vars

\* RunGC has removed the file of a/b, which held an empty config, and kept
\* the file of c, whose poll is not hot
C35_Witness ==
    /\ last.op = "RunGC"
    /\ last.err = NoError
    /\ last.val.gone = {InternalID(PollKey)}
    /\ InternalID(PollKey) \in DOMAIN memory
    /\ InternalID(OtherKey) \in DOMAIN disk \ DOMAIN memory

\* the files a sequence of file names names
Examined(order) == {order[i] : i \in DOMAIN order}

\* C36: when a file cannot be decoded during the scan, RunGC returns the
\* error of that file, no file that comes after it in the scan is removed,
\* and the hot map is as the first loop left it.
C36_ScanStops ==
    [][GCReturns(ErrDecode) =>
          LET scanned == last'.val.scanned IN
          /\ scanned # <<>>
          /\ load(disk, scanned[Len(scanned)], 0).err = ErrDecode
          /\ \A id \in DOMAIN AfterPhase1 \ Examined(scanned) :
                id \in DOMAIN disk' /\ disk'[id] = AfterPhase1[id]
          /\ DOMAIN memory' = DOMAIN memory \ HotDeleted
          /\ \A id \in DOMAIN memory' : Content(memory'[id]) = Content(memory[id])]_vars

\* RunGC has removed one file, then met the file that is no gob stream, and
\* left a third file that it would have removed
C36_Witness ==
    /\ last.op = "RunGC"
    /\ last.err = ErrDecode
    /\ Len(last.val.scanned) = 2
    /\ last.val.scanned[2] = ForeignID
    /\ last.val.gone # {}
    /\ \E id \in DOMAIN disk \ Examined(last.val.scanned) : Removable(disk, id)

---------------------------------------------------------------------------
(* Two polls: every operation of the interface that names a poll is called *)
(* on a/b, while c is configured and read. The storage directory is empty  *)
(* or holds the file of c, written by an earlier run of the program with a *)
(* config and one row.                                                     *)

TwoKeys == {PollKey, OtherKey}

\* the record of c an earlier run has written
EarlierRecord ==
    Appended([EmptyResult(0) EXCEPT !.Config = Bytes(<<123, 125>>)],
             RowB.name, RowB.comment, RowB.results, RowB.change, "AAAAAAAA", 0)

InitPolls ==
    \E dsk \in {EmptyMap, InternalID(OtherKey) :> File(Encoded(EarlierRecord))} :
        InitWith(dsk)

NextPolls ==
    \/ LoadConfig(RowsSettings)
    \/ \E k \in TwoKeys : SavePollConfig(k, Bytes(<<123, 125>>))
    \/ SavePollCreator(PollKey, "carol")
    \/ MarkPollDeleted(PollKey)
    \/ SavePollResult(PollKey, RowA.name, RowA.comment, RowA.results, RowA.change, "AAAAAAAA")
    \/ OverwritePollResult(PollKey, FirstAnswer, RowC.name, RowC.comment, RowC.results,
                           RowC.change)
    \/ DeleteAnswer(PollKey, FirstAnswer)
    \/ GetPollResult(PollKey)
    \/ GetSinglePollResult(PollKey, FirstAnswer)
    \/ GetPollConfig(PollKey)
    \/ \E k \in TwoKeys : GetPollCreator(k)
    \/ GetChange(PollKey, FirstAnswer)

SpecPolls == InitPolls /\ [][NextPolls]_vars

\* the fields of the record an operation assigns to
Assigned(op) ==
    CASE op = "SavePollResult" ->
             {"Data", "Names", "Comments", "Change", "IDs", "AnswerCounter"}
      [] op = "SavePollConfig" -> {"Config"}
      [] op = "SavePollCreator" -> {"Creator"}
      [] op = "MarkPollDeleted" -> {"Deleted", "Creator"}
      [] OTHER -> {}

\* the step is an operation on poll k of the active store
OperationOn(k) == active /\ last'.op \in PollOps /\ last'.key = k

\* C37: the first access to a poll that is neither hot nor on disk, by any
\* operation, puts one record into the hot map, which is the empty record not
\* marked as deleted but for the fields the operation assigns to (none for
\* the reading operations); no file is created and no other record changes.
C37_FirstAccess ==
    [][\A k \in TwoKeys :
          (/\ OperationOn(k)
           /\ InternalID(k) \notin DOMAIN memory
           /\ InternalID(k) \notin DOMAIN disk)
          => /\ DOMAIN memory' = DOMAIN memory \cup {InternalID(k)}
             /\ \A f \in DOMAIN Content(EmptyResult(0)) \ Assigned(last'.op) :
                   memory'[InternalID(k)][f] = EmptyResult(0)[f]
             /\ disk' = disk
             /\ \A id \in DOMAIN memory : Content(memory'[id]) = Content(memory[id])]_vars

\* GetPollCreator was the first access to a/b, while c was hot with the
\* record of its file: a/b has the empty record and no file
C37_Witness ==
    /\ last.op = "GetPollCreator"
    /\ last.key = PollKey
    /\ last.err = NoError
    /\ InternalID(OtherKey) \in DOMAIN memory
    /\ Content(memory[InternalID(OtherKey)]) = Content(EarlierRecord)
    /\ InternalID(PollKey) \in DOMAIN memory
    /\ Content(memory[InternalID(PollKey)]) = Content(EmptyResult(0))
    /\ DOMAIN disk = {InternalID(OtherKey)}

\* the identifiers the store accepts
Accepted == {k \in Keys : getInternalID(k).err = NoError}

\* C39: two accepted identifiers have two internal IDs, and an operation on
\* one poll changes neither the record nor the file of another: the other
\* records of the hot map are the same before and after, none comes or goes,
\* and the directory is the same.
C39_Isolated ==
    [][/\ \A k1, k2 \in Accepted : InternalID(k1) = InternalID(k2) => k1 = k2
       /\ \A k \in TwoKeys :
             OperationOn(k)
             => /\ DOMAIN memory' \ {InternalID(k)} = DOMAIN memory \ {InternalID(k)}
                /\ \A id \in DOMAIN memory \ {InternalID(k)} :
                      Content(memory'[id]) = Content(memory[id])
                /\ disk' = disk]_vars

\* a row was appended to a/b while c was hot with a row of its own and a file
C39_Witness ==
    /\ last.op = "SavePollResult"
    /\ last.key = PollKey
    /\ last.err = NoError
    /\ InternalID(OtherKey) \in DOMAIN memory
    /\ Content(memory[InternalID(OtherKey)]) = Content(EarlierRecord)
    /\ disk = InternalID(OtherKey) :> File(Encoded(EarlierRecord))
    /\ Len(memory[InternalID(PollKey)].Names) = 2

---------------------------------------------------------------------------
(* The store as a map: the config and the creator of a poll are written    *)
(* and read while a second poll is read and the ticks write and evict the  *)
(* records. RunGC is not called; every write to a file succeeds.           *)

NextMap ==
    \/ LoadConfig(RowsSettings)
    \/ \E c \in Configs : SavePollConfig(PollKey, c)
    \/ SavePollCreator(PollKey, "carol")
    \/ MarkPollDeleted(PollKey)
    \/ GetPollConfig(PollKey)
    \/ GetPollCreator(PollKey)
    \/ GetPollConfig(OtherKey)
    \/ \E w \in DOMAIN workers : ClearTick(w, FullWrites)
    \/ \E w \in DOMAIN workers : SyncTick(w, FullWrites)

SpecMap == Init /\ [][NextMap]_vars

\* the step is operation op on poll k and returns no error
Succeeds(op, k) == last'.op = op /\ last'.key = k /\ last'.err = NoError

\* one step of the store seen as a step of a map from k to config and
\* creator: a write sets the value, a read returns it, and every step that
\* is not a write of the value leaves it as it is, for every poll (any) or
\* for the polls that have a config
MapStep(k, any) ==
    LET before == NextAccess(memory, disk, k)
        after == NextAccess(memory', disk', k)
        lasting == any \/ ~NoConfig(before.Config)
    IN /\ Succeeds("SavePollConfig", k) => after.Config.b = last'.val.b
       /\ Succeeds("SavePollCreator", k) => after.Creator = last'.val
       /\ Succeeds("MarkPollDeleted", k) => after.Creator = ""
       /\ Succeeds("GetPollConfig", k) => last'.val.b = before.Config.b
       /\ Succeeds("GetPollCreator", k) => last'.val = before.Creator
       /\ (lasting /\ ~Succeeds("SavePollConfig", k))
             => after.Config.b = before.Config.b
       /\ (lasting /\ ~Succeeds("SavePollCreator", k)
                           /\ ~Succeeds("MarkPollDeleted", k))
             => after.Creator = before.Creator

---------------------------------------------------------------------------
(* Files of an older schema: the storage directory holds the file of a/b,  *)
(* written by an earlier version of the program that did not write the     *)
(* last values (the change secrets, the answer IDs, the counter), or wrote *)
(* them for the first row only. The poll is read and answered, a second    *)
(* poll is read, and the ticks write and evict the records.                *)

\* the record of a/b with two rows
TwoRows ==
    Appended(Appended([EmptyResult(0) EXCEPT !.Config = Bytes(<<123, 125>>)],
                      RowA.name, RowA.comment, RowA.results, RowA.change, "AAAAAAAA", 0),
             RowB.name, RowB.comment, RowB.results, RowB.change, "AAAAAAAA", 0)

\* the first values of the record: from the three of the first schema to the
\* nine of this one
Prefixes == {SubSeq(Encoded(TwoRows), 1, k) : k \in 3..NumFields}

\* the values with the change secret, the answer ID or both of the second
\* row missing
ShortRows ==
    {Encoded([TwoRows EXCEPT !.Change = SubSeq(@, 1, c), !.IDs = SubSeq(@, 1, i)]) :
        c \in 1..2, i \in 1..2}

OldFiles == {File(v) : v \in Prefixes \cup ShortRows}

InitSchema == \E f \in OldFiles : InitWith(InternalID(PollKey) :> f)

NextSchema ==
    \/ LoadConfig(RowsSettings)
    \/ GetPollResult(PollKey)
    \/ GetChange(PollKey, FirstAnswer)
    \/ SavePollResult(PollKey, RowC.name, RowC.comment, RowC.results, RowC.change, "AAAAAAAA")
    \/ GetPollConfig(OtherKey)
    \/ \E w \in DOMAIN workers : ClearTick(w, FullWrites)
    \/ \E w \in DOMAIN workers : SyncTick(w, FullWrites)

SpecSchema == InitSchema /\ [][NextSchema]_vars

\* sequence s is sequence short followed by copies of empty
Padded(s, short, empty) ==
    /\ Len(s) >= Len(short)
    /\ \A i \in DOMAIN s : s[i] = IF i <= Len(short) THEN short[i] ELSE empty

====
